---- MODULE Spec2Model ----
(***************************************************************************)
(* Verification model of the ER-diagram DSL pipeline:                      *)
(*   client/src/lib/dsl-parser.ts    Tokenizer, Parser, generateDSL        *)
(*   client/src/lib/diagram-model.ts astToDiagramModel, diagramModelToAST  *)
(*                                                                         *)
(* Text is a sequence of one-character strings.  Three characters are      *)
(* written by name: "NL" (line feed), "TAB", "CR", and "EMDASH" (U+2014).  *)
(* An optional field (fkTarget?, dataType?, subAttributes?, identifiedBy?) *)
(* is the empty sequence when undefined and <<v>> when it holds v.         *)
(***************************************************************************)
EXTENDS Integers, Sequences, FiniteSets, TLC

VARIABLES
    input,          \* the text handed to parseDSL / new Tokenizer(input)
    lexer,          \* Tokenizer fields: pos, line, column, tokens (+ done)
    parser,         \* Parser fields: tokens, pos
    entities,       \* Parser.parse local: entities
    relationships,  \* Parser.parse local: relationships
    phase,          \* position of the pipeline
    result,         \* what parseDSL handed to its caller: nothing yet, an AST, or an Error
    pass,           \* 1: parsing a document D;  2: parsing the text generateDSL printed
    ast,            \* the AST handed to generateDSL / astToDiagramModel
    model,          \* the DiagramModel astToDiagramModel returned
    nodeIdCounter,  \* diagram-model.ts line 12 (module-level)
    edgeIdCounter,  \* diagram-model.ts line 13 (module-level)
    issued,         \* history: the AST and the ids of every astToDiagramModel call so far
    exported,       \* what diagramModelToAST handed to its caller: nothing yet, an AST, or an Error
    positions,      \* the Map calculateLayout returned, and the arguments as it left them
    edits,          \* how many edits the model has taken since astToDiagramModel returned it
    currentAST,         \* erd-editor.tsx line 57 (React state)
    currentModel,       \* erd-editor.tsx line 58 (React state)
    parseError,         \* erd-editor.tsx line 59 (React state)
    isUpdatingFromDSL,  \* erd-editor.tsx line 66 (ref)
    timers,             \* the setTimeout callbacks of line 121 not yet run
    cells,              \* the child cells of the graph's default parent, in insertion order
    originalModel,      \* MxGraphEditor.originalModel
    sameObject,         \* currentModel and editor.originalModel are one object
    shapeIdCounter,     \* the editor module's counter of generateShapeId and addConnection
    parses              \* how many times handleParseAndGenerate has run

vars == <<input, lexer, parser, entities, relationships, phase, result,
          pass, ast, model, nodeIdCounter, edgeIdCounter, issued, exported, positions, edits,
          currentAST, currentModel, parseError, isUpdatingFromDSL, timers, cells,
          originalModel, sameObject, shapeIdCounter, parses>>

lexVars == <<input, lexer>>
parseVars == <<parser, entities, relationships, result>>
graphVars == <<model, nodeIdCounter, edgeIdCounter, issued, exported, positions, edits,
               currentAST, currentModel, parseError, isUpdatingFromDSL, timers, parses,
               cells, originalModel, sameObject, shapeIdCounter>>
counterVars == <<nodeIdCounter, edgeIdCounter>>
pageVars == <<currentAST, currentModel, parseError, isUpdatingFromDSL, timers, parses>>
canvasVars == <<cells, originalModel, sameObject, shapeIdCounter>>

----------------------------------------------------------------------------
(* Bounds *)

MaxInputLen == 3     \* longest raw input of the lexer specification
MaxLines == 2        \* most attribute lines below a declaration header
MaxAttrs == 2        \* most attributes of one owner in an enumerated AST
MaxEdits == 2        \* most edits a model takes before it is exported
MaxLayouts == 2      \* most calculateLayout calls in one behaviour of the layout specification
MaxRuns == 3         \* most astToDiagramModel calls in one behaviour of the id specification

----------------------------------------------------------------------------
(* Generic helpers *)

None == <<>>
Some(v) == <<v>>
IsSome(o) == Len(o) = 1
Val(o) == o[1]

RECURSIVE Concat(_)
Concat(ss) == IF ss = <<>> THEN <<>> ELSE Head(ss) \o Concat(Tail(ss))

RECURSIVE SeqsUpTo(_, _)
SeqsUpTo(S, n) ==
    IF n = 0 THEN {<<>>}
    ELSE LET shorter == SeqsUpTo(S, n - 1)
         IN  shorter \cup {Append(s, x) : s \in {t \in shorter : Len(t) = n - 1}, x \in S}

----------------------------------------------------------------------------
(* Characters *)

Letters ==
    {"a","b","c","d","e","f","g","h","i","j","k","l","m","n","o","p","q","r",
     "s","t","u","v","w","x","y","z",
     "A","B","C","D","E","F","G","H","I","J","K","L","M","N","O","P","Q","R",
     "S","T","U","V","W","X","Y","Z","_"}
Digits == {"0","1","2","3","4","5","6","7","8","9"}

\* the words of the DSL, spelled out
sEntity == <<"E","n","t","i","t","y">>
sWeak == <<"W","e","a","k">>
sRelation == <<"R","e","l","a","t","i","o","n">>
sIdentifying == <<"I","d","e","n","t","i","f","y","i","n","g">>
sComposite == <<"C","o","m","p","o","s","i","t","e">>
sMultivalued == <<"M","u","l","t","i","v","a","l","u","e","d">>
sDerived == <<"D","e","r","i","v","e","d">>
sPK == <<"P","K">>
sFK == <<"F","K">>
sIdentified == <<"I","d","e","n","t","i","f","i","e","d">>
sBy == <<"B","y">>
sTotal == <<"t","o","t","a","l">>
sPartial == <<"p","a","r","t","i","a","l">>
sM == <<"M">>
sOne == <<"1">>
sArrow == <<"-", ">">>
sp == <<" ">>
nl == <<"NL">>

\* String.prototype.trim: the white space of both ends goes
WhiteSpace == {" ", "TAB", "CR", "NL"}

RECURSIVE TrimStart(_)
TrimStart(text) ==
    IF text # <<>> /\ Head(text) \in WhiteSpace THEN TrimStart(Tail(text)) ELSE text

RECURSIVE TrimEnd(_)
TrimEnd(text) ==
    IF text # <<>> /\ text[Len(text)] \in WhiteSpace
    THEN TrimEnd(SubSeq(text, 1, Len(text) - 1))
    ELSE text

trim(text) == TrimEnd(TrimStart(text))

\* Array.prototype.join
RECURSIVE join(_, _)
join(parts, sep) ==
    IF parts = <<>> THEN <<>>
    ELSE IF Len(parts) = 1 THEN parts[1]
    ELSE parts[1] \o sep \o join(Tail(parts), sep)

\* input[pos] of a 0-based position; '' (here "") past the end, as peek() gives
CharAt(text, pos) == IF pos >= 0 /\ pos < Len(text) THEN text[pos + 1] ELSE ""

----------------------------------------------------------------------------
(* Tokenizer  (dsl-parser.ts 20-155) *)

Token(type, value, line, column) ==
    [type |-> type, value |-> value, line |-> line, column |-> column]

NewTokenizer == [pos |-> 0, line |-> 1, column |-> 1, tokens |-> <<>>, done |-> FALSE]

\* Tokenizer.advance
LexAdvance(s) == [s EXCEPT !.pos = @ + 1, !.column = @ + 1]

Push(s, tok) == [s EXCEPT !.tokens = Append(@, tok)]

\* the inner while of skipWhitespaceAndComments: run to the end of the line
RECURSIVE SkipComment(_, _)
SkipComment(text, s) ==
    IF s.pos < Len(text) /\ CharAt(text, s.pos) # "NL"
    THEN SkipComment(text, LexAdvance(s))
    ELSE s

RECURSIVE skipWhitespaceAndComments(_, _)
skipWhitespaceAndComments(text, s) ==
    IF s.pos < Len(text)
    THEN LET char == CharAt(text, s.pos)
         IN  IF char \in {" ", "TAB", "CR"}
             THEN skipWhitespaceAndComments(text, LexAdvance(s))
             ELSE IF char = "#"
             THEN skipWhitespaceAndComments(text, SkipComment(text, s))
             ELSE s
    ELSE s

\* the while of readIdentifier / readNumber: the longest run of characters of `class`
RECURSIVE ReadRun(_, _, _, _)
ReadRun(text, s, class, value) ==
    IF s.pos < Len(text) /\ CharAt(text, s.pos) \in class
    THEN ReadRun(text, LexAdvance(s), class, Append(value, CharAt(text, s.pos)))
    ELSE [s |-> s, value |-> value]

\* the keywords table of readIdentifier
keywords ==
    { <<sEntity, "ENTITY">>, <<sWeak, "WEAK">>, <<sRelation, "RELATION">>,
      <<sIdentifying, "IDENTIFYING">>, <<sComposite, "COMPOSITE">>,
      <<sMultivalued, "MULTIVALUED">>, <<sDerived, "DERIVED">>, <<sPK, "PK">>,
      <<sFK, "FK">>, <<sIdentified, "IDENTIFIED">>, <<sBy, "BY">>,
      <<sTotal, "TOTAL">>, <<sPartial, "PARTIAL">>, <<sM, "M">> }

\* keywords[value] || 'IDENTIFIER'
KeywordType(value) ==
    IF \E kw \in keywords : kw[1] = value
    THEN (CHOOSE kw \in keywords : kw[1] = value)[2]
    ELSE "IDENTIFIER"

readIdentifier(text, s) ==
    LET r == ReadRun(text, s, Letters \cup Digits, <<>>)
    IN  Push(r.s, Token(KeywordType(r.value), r.value, s.line, s.column))

readNumber(text, s) ==
    LET r == ReadRun(text, s, Digits, <<>>)
    IN  IF r.value = <<"1">>
        THEN Push(r.s, Token("ONE", <<"1">>, s.line, s.column))
        ELSE Push(r.s, Token("NUMBER", r.value, s.line, s.column))

\* one punctuation token of `width` characters
Punct(s, type, value, width) ==
    LET pushed == Push(s, Token(type, value, s.line, s.column))
    IN  IF width = 2 THEN LexAdvance(LexAdvance(pushed)) ELSE LexAdvance(pushed)

\* an else branch that leaves the position where it is
SkipUnknown_Stay(s) == s

\* the else branch of the dispatch: an unrecognised character is stepped over
SkipUnknown(s) == LexAdvance(s)

\* the dispatch on `char` in the body of tokenize's loop (lines 36-82)
Dispatch(text, s) ==
    LET char == CharAt(text, s.pos)
    IN  IF char = "NL"
        THEN [s EXCEPT !.pos = @ + 1, !.line = @ + 1, !.column = 1]
        ELSE IF char \in Letters THEN readIdentifier(text, s)
        ELSE IF char \in Digits THEN readNumber(text, s)
        ELSE IF char = ":" THEN Punct(s, "COLON", <<":">>, 1)
        ELSE IF char = "(" THEN Punct(s, "LPAREN", <<"(">>, 1)
        ELSE IF char = ")" THEN Punct(s, "RPAREN", <<")">>, 1)
        ELSE IF char = "," THEN Punct(s, "COMMA", <<",">>, 1)
        ELSE IF char = "." THEN Punct(s, "DOT", <<".">>, 1)
        ELSE IF char = "+" THEN Punct(s, "PLUS", <<"+">>, 1)
        ELSE IF char = "-" /\ CharAt(text, s.pos + 1) = ">"
             THEN Punct(s, "ARROW", <<"-", ">">>, 2)
        ELSE IF char = "EMDASH" THEN Punct(s, "DASH", <<"EMDASH">>, 1)
        ELSE IF char = "-" /\ CharAt(text, s.pos + 1) = "-"
             THEN Punct(s, "DASH", <<"-", "-">>, 2)
        ELSE SkipUnknown(s)

\* one iteration of the while loop of tokenize (lines 32-83), entered with pos < length
LexIteration(text, s) ==
    LET skipped == skipWhitespaceAndComments(text, s)
    IN  IF skipped.pos >= Len(text) THEN skipped ELSE Dispatch(text, skipped)

\* lines 85-86: the end marker
LexFinish(s) == [Push(s, Token("EOF", <<>>, s.line, s.column)) EXCEPT !.done = TRUE]

RECURSIVE LexRun(_, _)
LexRun(text, s) ==
    IF s.pos < Len(text) THEN LexRun(text, LexIteration(text, s)) ELSE LexFinish(s)

\* new Tokenizer(input).tokenize()
tokenize(text) == LexRun(text, NewTokenizer).tokens

----------------------------------------------------------------------------
(* Parser  (dsl-parser.ts 157-488)                                         *)
(* A parsing method is an operator of the token list t and the position p  *)
(* it is entered at; it yields [pos, val, err]: the position it leaves,    *)
(* its return value, and err = <<message>> when it threw (val is then      *)
(* empty and every caller passes the throw on unchanged).                  *)

Ok(p, v) == [pos |-> p, val |-> v, err |-> None]
Throw(p, msg) == [pos |-> p, val |-> <<>>, err |-> Some(msg)]
Threw(r) == IsSome(r.err)

\* fragments of an Error message: literal text, a token type, a number
Text(s) == [kind |-> "text", text |-> s, num |-> 0]
Type(s) == [kind |-> "type", text |-> s, num |-> 0]
Num(n) == [kind |-> "num", text |-> "", num |-> n]

current(t, p) == t[p + 1]

isAtEnd(t, p) == current(t, p).type = "EOF"

check(t, p, type) == ~isAtEnd(t, p) /\ current(t, p).type = type

\* advance(): the position after it
advance(t, p) == IF ~isAtEnd(t, p) THEN p + 1 ELSE p

peek(t, p, offset) == IF p + offset >= Len(t) THEN None ELSE Some(t[p + offset + 1])

isEntityOrRelationStart(t, p) ==
    check(t, p, "ENTITY") \/ check(t, p, "WEAK") \/ check(t, p, "RELATION")
        \/ check(t, p, "IDENTIFYING")

\* `Expected ${type} but got ${current().type} at line ${line}, column ${column}`
ExpectMessage(type, tok) ==
    << Text("Expected"), Type(type), Text("but got"), Type(tok.type),
       Text("at line"), Num(tok.line), Text(", column"), Num(tok.column) >>

expect(t, p, type) ==
    IF check(t, p, type)
    THEN Ok(advance(t, p), current(t, p))
    ELSE Throw(p, ExpectMessage(type, current(t, p)))

\* The statements of a parsing method that call expect() or another parsing
\* method, run in order from position p.  A step is the token type handed to
\* expect(), or the name of the method called.  val collects what each step
\* returned; the first step that throws ends the method with its throw.
RECURSIVE Step(_, _, _)
RECURSIVE Run(_, _, _, _)

\* after the step that gave r
RunNext(t, r, steps, got) ==
    IF Threw(r) THEN r ELSE Run(t, r.pos, steps, Append(got, r.val))

Run(t, p, steps, got) ==
    IF steps = <<>> THEN Ok(p, got)
    ELSE RunNext(t, Step(t, p, Head(steps)), Tail(steps), got)

\* `Expected cardinality (1 or M) at line ${this.current().line}`
CardinalityMessage(tok) ==
    << Text("Expected"), Text("cardinality"), Text("(1 or M)"),
       Text("at line"), Num(tok.line) >>

\* a parseCardinality that takes any number for "many"
parseCardinality_Lenient(t, p) ==
    IF check(t, p, "ONE") THEN Ok(advance(t, p), "1")
    ELSE IF check(t, p, "M") \/ check(t, p, "NUMBER") THEN Ok(advance(t, p), "M")
    ELSE Throw(p, CardinalityMessage(current(t, p)))

parseCardinality(t, p) ==
    IF check(t, p, "ONE") THEN Ok(advance(t, p), "1")
    ELSE IF check(t, p, "M") THEN Ok(advance(t, p), "M")
    ELSE Throw(p, CardinalityMessage(current(t, p)))

\* `Expected participation (total or partial) at line ${this.current().line}`
ParticipationMessage(tok) ==
    << Text("Expected"), Text("participation"), Text("(total or partial)"),
       Text("at line"), Num(tok.line) >>

parseParticipation(t, p) ==
    IF check(t, p, "TOTAL") THEN Ok(advance(t, p), "total")
    ELSE IF check(t, p, "PARTIAL") THEN Ok(advance(t, p), "partial")
    ELSE Throw(p, ParticipationMessage(current(t, p)))

\* return { entityName, attributeName }
FkTargetOf(r) ==
    IF Threw(r) THEN r
    ELSE Ok(r.pos, [entityName |-> r.val[1].value, attributeName |-> r.val[3].value])

parseFkTarget(t, p) == FkTargetOf(Run(t, p, <<"IDENTIFIER", "DOT", "IDENTIFIER">>, <<>>))

RECURSIVE IdentifiedByLoop(_, _, _)

\* targets.push(this.parseFkTarget()), then the while (check('PLUS')) loop
IdentifiedByPush(t, r, targets) ==
    IF Threw(r) THEN r ELSE IdentifiedByLoop(t, r.pos, Append(targets, r.val))

IdentifiedByLoop(t, p, targets) ==
    IF check(t, p, "PLUS")
    THEN IdentifiedByPush(t, parseFkTarget(t, advance(t, p)), targets)
    ELSE Ok(p, targets)

parseIdentifiedByList(t, p) == IdentifiedByPush(t, parseFkTarget(t, p), <<>>)

Attribute(name, attributeType, keyType, fkTarget, dataType, subAttributes) ==
    [name |-> name, attributeType |-> attributeType, keyType |-> keyType,
     fkTarget |-> fkTarget, dataType |-> dataType, subAttributes |-> subAttributes]

\* { name, attributeType: 'simple', keyType: 'none' }
SimpleAttribute(name) == Attribute(name, "simple", "none", None, None, None)

\* the token types whose appearance after an identifier ends a sub-attribute list
SubAttributeLookahead == {"PK", "FK", "COMPOSITE", "MULTIVALUED", "DERIVED"}

\* line 304: the loop condition of parseSubAttributeList
SubAttributeContinues(t, p) == ~isAtEnd(t, p) /\ check(t, p, "IDENTIFIER")

\* a sub-attribute loop with no lookahead
SubAttributeBreaks_Never(t, p) == FALSE

\* lines 305-314: the lookahead break
SubAttributeBreaks(t, p) ==
    LET nextToken == peek(t, p, 1)
    IN  IsSome(nextToken) /\ Val(nextToken).type \in SubAttributeLookahead

RECURSIVE SubAttributeLoop(_, _, _)

\* lines 316-336: the name is pushed, and the loop ends when a declaration or an
\* Identified keyword follows it
SubAttributePush(t, name, attributes) ==
    IF Threw(name) THEN name
    ELSE IF isEntityOrRelationStart(t, name.pos) \/ check(t, name.pos, "IDENTIFIED")
    THEN Ok(name.pos, Append(attributes, SimpleAttribute(name.val.value)))
    ELSE SubAttributeLoop(t, name.pos, Append(attributes, SimpleAttribute(name.val.value)))

SubAttributeLoop(t, p, attributes) ==
    IF SubAttributeContinues(t, p)
    THEN IF SubAttributeBreaks(t, p)
         THEN Ok(p, attributes)
         ELSE SubAttributePush(t, expect(t, p, "IDENTIFIER"), attributes)
    ELSE Ok(p, attributes)

parseSubAttributeList(t, p) == SubAttributeLoop(t, p, <<>>)

\* lines 267-273: keyType = 'fk' with the target parseFkTarget returned
FkAttribute(n, fk) ==
    IF Threw(fk) THEN fk
    ELSE Ok(fk.pos, Attribute(n, "simple", "fk", Some(fk.val), None, None))

\* lines 274-278: r is what expect('COLON') and parseSubAttributeList returned
CompositeAttribute(n, r) ==
    IF Threw(r) THEN r
    ELSE Ok(r.pos, Attribute(n, "composite", "none", None, None, Some(r.val[2])))

\* lines 285-288: dataType is the token expect('IDENTIFIER') returned
TypedAttribute(n, dataType) ==
    IF Threw(dataType) THEN dataType
    ELSE Ok(dataType.pos, Attribute(n, "typed", "none", None, Some(dataType.val.value), None))

\* lines 264-298: the branches of parseAttribute after its name n, entered at q
AttributeKind(t, q, n) ==
    IF check(t, q, "PK")
    THEN Ok(advance(t, q), Attribute(n, "simple", "pk", None, None, None))
    ELSE IF check(t, q, "FK")
    THEN IF check(t, advance(t, q), "ARROW")
         THEN FkAttribute(n, parseFkTarget(t, advance(t, advance(t, q))))
         ELSE Ok(advance(t, q), Attribute(n, "simple", "fk", None, None, None))
    ELSE IF check(t, q, "COMPOSITE")
    THEN CompositeAttribute(n, Run(t, advance(t, q), <<"COLON", "parseSubAttributeList">>, <<>>))
    ELSE IF check(t, q, "MULTIVALUED")
    THEN Ok(advance(t, q), Attribute(n, "multivalued", "none", None, None, None))
    ELSE IF check(t, q, "DERIVED")
    THEN Ok(advance(t, q), Attribute(n, "derived", "none", None, None, None))
    ELSE IF check(t, q, "COLON")
    THEN TypedAttribute(n, expect(t, advance(t, q), "IDENTIFIER"))
    ELSE Ok(q, Attribute(n, "simple", "none", None, None, None))

\* line 257: name is the token expect('IDENTIFIER') returned
AttributeNamed(t, name) ==
    IF Threw(name) THEN name ELSE AttributeKind(t, name.pos, name.val.value)

parseAttribute(t, p) == AttributeNamed(t, expect(t, p, "IDENTIFIER"))

RECURSIVE AttributeLoop(_, _, _)

\* line 245: attributes.push(this.parseAttribute())
AttributePush(t, r, attributes) ==
    IF Threw(r) THEN r ELSE AttributeLoop(t, r.pos, Append(attributes, r.val))

AttributeLoop(t, p, attributes) ==
    IF ~isAtEnd(t, p) /\ ~isEntityOrRelationStart(t, p)
    THEN IF check(t, p, "IDENTIFIER")
         THEN AttributePush(t, parseAttribute(t, p), attributes)
         ELSE IF check(t, p, "IDENTIFIED")
         THEN Ok(p, attributes)
         ELSE AttributeLoop(t, advance(t, p), attributes)
    ELSE Ok(p, attributes)

parseAttributeList(t, p) == AttributeLoop(t, p, <<>>)

RECURSIVE RelationAttributeLoop(_, _, _)

\* lines 422-427: name is the token expect('IDENTIFIER') returned
RelationAttributePush(t, name, attributes) ==
    IF Threw(name) THEN name
    ELSE RelationAttributeLoop(t, name.pos,
                               Append(attributes, SimpleAttribute(name.val.value)))

RelationAttributeLoop(t, p, attributes) ==
    IF ~isAtEnd(t, p) /\ ~isEntityOrRelationStart(t, p) /\ check(t, p, "IDENTIFIER")
    THEN RelationAttributePush(t, expect(t, p, "IDENTIFIER"), attributes)
    ELSE Ok(p, attributes)

parseRelationAttributeList(t, p) == RelationAttributeLoop(t, p, <<>>)

Entity(name, entityType, attributes, identifiedBy) ==
    [name |-> name, entityType |-> entityType, attributes |-> attributes,
     identifiedBy |-> identifiedBy]

\* lines 192-196: return { name, entityType: 'strong', attributes }
StrongEntityOf(r) ==
    IF Threw(r) THEN r
    ELSE Ok(r.pos, Entity(r.val[2].value, "strong", r.val[4], None))

parseEntity(t, p) ==
    StrongEntityOf(Run(t, p, <<"ENTITY", "IDENTIFIER", "COLON", "parseAttributeList">>, <<>>))

\* line 209: identifiedBy = this.parseIdentifiedByList(), the last step of the clause
IdentifiedByOf(r) ==
    IF Threw(r) THEN r ELSE Ok(r.pos, Some(r.val[Len(r.val)]))

\* a weak entity that must be followed by its Identified By clause
parseIdentifiedByClause_Required(t, p) ==
    IdentifiedByOf(Run(t, p, <<"IDENTIFIED", "BY", "parseIdentifiedByList">>, <<>>))

\* lines 206-211: the optional Identified By clause
parseIdentifiedByClause(t, p) ==
    IF check(t, p, "IDENTIFIED")
    THEN IdentifiedByOf(Run(t, advance(t, p), <<"BY", "parseIdentifiedByList">>, <<>>))
    ELSE Ok(p, None)

\* lines 212-217: return { name, entityType: 'weak', attributes, identifiedBy }
WeakEntityOf(r) ==
    IF Threw(r) THEN r
    ELSE Ok(r.pos, Entity(r.val[3].value, "weak", r.val[5], r.val[6]))

parseWeakEntity(t, p) ==
    WeakEntityOf(Run(t, p, <<"WEAK", "ENTITY", "IDENTIFIER", "COLON", "parseAttributeList",
                             "parseIdentifiedByClause">>, <<>>))

Side(entityName, cardinality, participation) ==
    [entityName |-> entityName, cardinality |-> cardinality, participation |-> participation]

Relationship(name, relationshipType, leftSide, rightSide, verb, attributes) ==
    [name |-> name, relationshipType |-> relationshipType, leftSide |-> leftSide,
     rightSide |-> rightSide, verb |-> verb, attributes |-> attributes]

\* a default of 'total'
DefaultParticipation_Total == "total"

\* lines 346 / 355: let participation: Participation = 'partial'
DefaultParticipation == "partial"

\* lines 346-350 / 355-359: the participation of a side, written or not
parseOptionalParticipation(t, p) ==
    IF check(t, p, "COMMA")
    THEN parseParticipation(t, advance(t, p))
    ELSE Ok(p, DefaultParticipation)

\* lines 367-382: the RelationshipNode parseRelation returns
RelationOf(r) ==
    IF Threw(r) THEN r
    ELSE Ok(r.pos, Relationship(r.val[14].value, "normal",
                                Side(r.val[2].value, r.val[4], r.val[5]),
                                Side(r.val[12].value, r.val[9], r.val[10]),
                                r.val[14].value, r.val[15]))

parseRelation(t, p) ==
    RelationOf(Run(t, p, <<"RELATION", "IDENTIFIER",
                           "LPAREN", "parseCardinality", "parseOptionalParticipation", "RPAREN",
                           "DASH",
                           "LPAREN", "parseCardinality", "parseOptionalParticipation", "RPAREN",
                           "IDENTIFIER", "COLON", "IDENTIFIER",
                           "parseRelationAttributeList">>, <<>>))

\* lines 400-415: the RelationshipNode parseIdentifyingRelation returns
IdentifyingRelationOf(r) ==
    IF Threw(r) THEN r
    ELSE Ok(r.pos, Relationship(r.val[13].value, "identifying",
                                Side(r.val[3].value, r.val[5], "total"),
                                Side(r.val[11].value, r.val[9], "total"),
                                r.val[13].value, <<>>))

parseIdentifyingRelation(t, p) ==
    IdentifyingRelationOf(Run(t, p, <<"IDENTIFYING", "RELATION", "IDENTIFIER",
                                      "LPAREN", "parseCardinality", "RPAREN",
                                      "DASH",
                                      "LPAREN", "parseCardinality", "RPAREN",
                                      "IDENTIFIER", "COLON", "IDENTIFIER">>, <<>>))

\* one step of a parsing method: the call of another parsing method, or expect(step)
Step(t, p, step) ==
    CASE step = "parseAttributeList" -> parseAttributeList(t, p)
      [] step = "parseSubAttributeList" -> parseSubAttributeList(t, p)
      [] step = "parseIdentifiedByClause" -> parseIdentifiedByClause(t, p)
      [] step = "parseIdentifiedByList" -> parseIdentifiedByList(t, p)
      [] step = "parseCardinality" -> parseCardinality(t, p)
      [] step = "parseOptionalParticipation" -> parseOptionalParticipation(t, p)
      [] step = "parseRelationAttributeList" -> parseRelationAttributeList(t, p)
      [] OTHER -> expect(t, p, step)

\* entities.push(...) / relationships.push(...) of parse(): r is what the parsing
\* method returned
Declared(kind, r) == IF Threw(r) THEN r ELSE Ok(r.pos, <<kind, r.val>>)

\* an iteration whose last branch leaves the token where it is
ParseIteration_Stuck(t, p) ==
    IF check(t, p, "ENTITY") THEN Declared("entity", parseEntity(t, p))
    ELSE IF check(t, p, "WEAK") THEN Declared("entity", parseWeakEntity(t, p))
    ELSE IF check(t, p, "RELATION") THEN Declared("relationship", parseRelation(t, p))
    ELSE IF check(t, p, "IDENTIFYING")
         THEN Declared("relationship", parseIdentifyingRelation(t, p))
    ELSE Ok(p, <<"skip">>)

\* one iteration of the while (!isAtEnd()) loop of parse(): val = <<"entity", e>>,
\* <<"relationship", r>> or <<"skip">>
ParseIteration(t, p) ==
    IF check(t, p, "ENTITY") THEN Declared("entity", parseEntity(t, p))
    ELSE IF check(t, p, "WEAK") THEN Declared("entity", parseWeakEntity(t, p))
    ELSE IF check(t, p, "RELATION") THEN Declared("relationship", parseRelation(t, p))
    ELSE IF check(t, p, "IDENTIFYING")
         THEN Declared("relationship", parseIdentifyingRelation(t, p))
    ELSE Ok(advance(t, p), <<"skip">>)

AST(es, rs) == [entities |-> es, relationships |-> rs]

\* no Parser constructed yet
Idle == [tokens |-> <<>>, pos |-> 0]

\* what a caller of parseDSL receives
NoResult == [kind |-> "none", ast |-> None, error |-> None]
Returned(a) == [kind |-> "ast", ast |-> Some(a), error |-> None]
Raised(msg) == [kind |-> "error", ast |-> None, error |-> Some(msg)]

\* the whole of Parser.parse from position p with the lists collected so far
RECURSIVE ParseLoop(_, _, _, _)

\* after the iteration that gave r: the throw reaches parseDSL's caller, or the
\* declaration is pushed and the loop goes on
ParseNext(t, r, es, rs) ==
    IF Threw(r) THEN Raised(Val(r.err))
    ELSE IF r.val[1] = "entity" THEN ParseLoop(t, r.pos, Append(es, r.val[2]), rs)
    ELSE IF r.val[1] = "relationship" THEN ParseLoop(t, r.pos, es, Append(rs, r.val[2]))
    ELSE ParseLoop(t, r.pos, es, rs)

ParseLoop(t, p, es, rs) ==
    IF isAtEnd(t, p) THEN Returned(AST(es, rs))
    ELSE ParseNext(t, ParseIteration(t, p), es, rs)

\* parseDSL(input)
parseDSL(text) == ParseLoop(tokenize(text), 0, <<>>, <<>>)

----------------------------------------------------------------------------
(* Printer  (dsl-parser.ts 497-568) *)

\* `${fk.entityName}.${fk.attributeName}`
FkText(fk) == fk.entityName \o <<".">> \o fk.attributeName

RECURSIVE generateAttribute(_, _)
generateAttribute(attr, indent) ==
    LET line == indent \o attr.name
    IN  IF attr.keyType = "pk" THEN line \o sp \o sPK
        ELSE IF attr.keyType = "fk" /\ IsSome(attr.fkTarget)
        THEN line \o sp \o sFK \o sp \o sArrow \o sp \o FkText(Val(attr.fkTarget))
        ELSE IF attr.attributeType = "composite" /\ IsSome(attr.subAttributes)
        THEN LET subs == Val(attr.subAttributes)
                 subLines == [i \in 1..Len(subs) |->
                                 generateAttribute(subs[i], indent \o sp \o sp)]
             IN  line \o sp \o sComposite \o <<":">> \o nl \o join(subLines, nl)
        ELSE IF attr.attributeType = "multivalued" THEN line \o sp \o sMultivalued
        ELSE IF attr.attributeType = "derived" THEN line \o sp \o sDerived
        ELSE IF attr.attributeType = "typed" /\ IsSome(attr.dataType)
                    /\ Val(attr.dataType) # <<>>
        THEN line \o <<":", " ">> \o Val(attr.dataType)
        ELSE line

\* the lines pushed for one entity (lines 500-517)
EntityLines(entity) ==
    LET header == IF entity.entityType = "weak"
                  THEN sWeak \o sp \o sEntity \o sp \o entity.name \o <<":">>
                  ELSE sEntity \o sp \o entity.name \o <<":">>
        attrs == [i \in 1..Len(entity.attributes) |->
                     generateAttribute(entity.attributes[i], sp \o sp)]
        idParts == [i \in 1..Len(Val(entity.identifiedBy)) |->
                       FkText(Val(entity.identifiedBy)[i])]
        identified == IF entity.entityType = "weak" /\ IsSome(entity.identifiedBy)
                      THEN << sp \o sp \o sIdentified \o sp \o sBy \o sp
                                 \o join(idParts, <<" ", "+", " ">>) >>
                      ELSE <<>>
    IN  <<header>> \o attrs \o identified \o << <<>> >>

\* leftPart / rightPart (lines 520-530)
SidePart(side, relationshipType) ==
    IF side.participation = "total" /\ relationshipType = "normal"
    THEN <<"(", side.cardinality, ",", " ">> \o sTotal \o <<")">>
    ELSE IF side.participation = "partial" /\ relationshipType = "normal"
    THEN <<"(", side.cardinality, ",", " ">> \o sPartial \o <<")">>
    ELSE <<"(", side.cardinality, ")">>

\* the lines pushed for one relationship (lines 519-543)
RelationshipLines(rel) ==
    LET body == rel.leftSide.entityName \o sp
                    \o SidePart(rel.leftSide, rel.relationshipType)
                    \o <<" ", "EMDASH", " ">>
                    \o SidePart(rel.rightSide, rel.relationshipType) \o sp
                    \o rel.rightSide.entityName \o <<":", " ">> \o rel.verb
        header == IF rel.relationshipType = "identifying"
                  THEN sIdentifying \o sp \o sRelation \o sp \o body
                  ELSE sRelation \o sp \o body
        attrs == [i \in 1..Len(rel.attributes) |-> sp \o sp \o rel.attributes[i].name]
    IN  <<header>> \o attrs \o << <<>> >>

generateDSL(a) ==
    LET lines == Concat([i \in 1..Len(a.entities) |-> EntityLines(a.entities[i])])
                 \o Concat([i \in 1..Len(a.relationships) |->
                               RelationshipLines(a.relationships[i])])
    IN  trim(join(lines, nl))

----------------------------------------------------------------------------
(* Graph transformer, forward  (diagram-model.ts 12-137) *)

\* `node_${n}` and `edge_${n}`
NodeId(n) == <<"node", n>>
EdgeId(n) == <<"edge", n>>

DiagramNode(id, type, label, name, parentId, isPrimaryKey, isForeignKey, fkTarget, dataType, identifiedBy, entityType, relationshipType) ==
    [id |-> id, type |-> type, label |-> label, name |-> name, parentId |-> parentId,
     isPrimaryKey |-> isPrimaryKey, isForeignKey |-> isForeignKey, fkTarget |-> fkTarget,
     dataType |-> dataType, identifiedBy |-> identifiedBy, entityType |-> entityType,
     relationshipType |-> relationshipType]

DiagramEdge(id, sourceId, targetId, sourceCardinality, targetCardinality, sourceParticipation, targetParticipation) ==
    [id |-> id, sourceId |-> sourceId, targetId |-> targetId,
     sourceCardinality |-> sourceCardinality, targetCardinality |-> targetCardinality,
     sourceParticipation |-> sourceParticipation,
     targetParticipation |-> targetParticipation]

\* erd-types.ts 49-57: the type tags of a node
EntityTypes == {"entity", "weakEntity"}
RelationshipTypes == {"relationship", "identifyingRelationship"}
AttributeTypes ==
    {"simpleAttribute", "multivaluedAttribute", "derivedAttribute", "compositeAttribute"}

\* line 164, line 171, and child.type.includes('Attribute') of line 229
IsEntityNode(n) == n.type \in EntityTypes
IsRelationshipNode(n) == n.type \in RelationshipTypes
IsAttributeNode(n) == n.type \in AttributeTypes

\* a test that looks at all four fields an edge can carry
HasCardinality_OrParticipation(e) ==
    \/ IsSome(e.sourceCardinality) \/ IsSome(e.targetCardinality)
    \/ IsSome(e.sourceParticipation) \/ IsSome(e.targetParticipation)

\* the test lines 150 and 175 (and mxgraph-editor.ts 423, 438) make of an edge:
\* edge.sourceCardinality || edge.targetCardinality
HasCardinality(e) == IsSome(e.sourceCardinality) \/ IsSome(e.targetCardinality)

\* a resetIdCounters that leaves the counters where the last call left them
resetIdCounters_Keep(c) == c

\* lines 23-26: resetIdCounters() on the module-level counters c
resetIdCounters(c) == [nodeIdCounter |-> 0, edgeIdCounter |-> 0]

\* lines 30-31: the empty lists a transform run fills, beside the counters c
NewGraph(c) ==
    [nodes |-> <<>>, edges |-> <<>>,
     nodeIdCounter |-> c.nodeIdCounter, edgeIdCounter |-> c.edgeIdCounter]

\* a push that takes its id without moving nodeIdCounter
PushNode_SameId(g, node) == [g EXCEPT !.nodes = Append(@, node)]

\* nodes.push(node) with id generateNodeId()
PushNode(g, node) ==
    [g EXCEPT !.nodes = Append(@, node), !.nodeIdCounter = @ + 1]

\* edges.push(edge) with id generateEdgeId()
PushEdge(g, edge) ==
    [g EXCEPT !.edges = Append(@, edge), !.edgeIdCounter = @ + 1]

\* the type tag processAttribute gives an attribute (lines 105-112)
AttributeNodeType(attr) ==
    IF attr.attributeType = "composite" THEN "compositeAttribute"
    ELSE IF attr.attributeType = "multivalued" THEN "multivaluedAttribute"
    ELSE IF attr.attributeType = "derived" THEN "derivedAttribute"
    ELSE "simpleAttribute"

\* a containment edge drawn from the attribute to itself
ContainmentEdge_Loop(g, parentId, attrNodeId) ==
    PushEdge(g, DiagramEdge(EdgeId(g.edgeIdCounter + 1), attrNodeId, attrNodeId,
                            None, None, None, None))

\* lines 126-130: the containment edge parent -> attribute
ContainmentEdge(g, parentId, attrNodeId) ==
    PushEdge(g, DiagramEdge(EdgeId(g.edgeIdCounter + 1), parentId, attrNodeId,
                            None, None, None, None))

\* a processAttribute that does not descend
SubAttributesToProcess_None(attr) == <<>>

\* lines 132-136: which sub-attributes processAttribute descends into
SubAttributesToProcess(attr) ==
    IF attr.attributeType = "composite" /\ IsSome(attr.subAttributes)
    THEN Val(attr.subAttributes)
    ELSE <<>>

RECURSIVE processAttribute(_, _, _)
RECURSIVE processAttributes(_, _, _)

processAttribute(attr, parentId, g) ==
    LET attrNodeId == NodeId(g.nodeIdCounter + 1)
        attrNode == DiagramNode(attrNodeId, AttributeNodeType(attr), attr.name, None,
                                Some(parentId), Some(attr.keyType = "pk"),
                                Some(attr.keyType = "fk"), attr.fkTarget, attr.dataType,
                                None, None, None)
        withNode == PushNode(g, attrNode)
        withEdge == ContainmentEdge(withNode, parentId, attrNodeId)
    IN  processAttributes(SubAttributesToProcess(attr), attrNodeId, withEdge)

\* for (const attr of attributes) processAttribute(attr, parentId, nodes, edges)
processAttributes(attrs, parentId, g) ==
    IF attrs = <<>> THEN g
    ELSE processAttributes(Tail(attrs), parentId, processAttribute(Head(attrs), parentId, g))

\* Map.set / Map.get on a list of <<key, value>> pairs: the last set wins
MapSet(m, k, v) == Append(m, <<k, v>>)
MapHas(m, k) == \E i \in 1..Len(m) : m[i][1] = k
MapGet(m, k) ==
    LET i == CHOOSE i \in 1..Len(m) :
                 m[i][1] = k /\ \A j \in (i + 1)..Len(m) : m[j][1] # k
    IN  m[i][2]

\* lines 35-52: the entity loop; yields the graph and entityNodeMap
RECURSIVE EntityLoop(_, _, _)
EntityLoop(es, g, entityNodeMap) ==
    IF es = <<>> THEN [g |-> g, entityNodeMap |-> entityNodeMap]
    ELSE LET entity == Head(es)
             entityNodeId == NodeId(g.nodeIdCounter + 1)
             entityNode ==
                 DiagramNode(entityNodeId,
                             IF entity.entityType = "weak" THEN "weakEntity" ELSE "entity",
                             entity.name, Some(entity.name), None, None, None, None, None,
                             entity.identifiedBy, Some(entity.entityType), None)
             withNode == PushNode(g, entityNode)
         IN  EntityLoop(Tail(es),
                        processAttributes(entity.attributes, entityNodeId, withNode),
                        MapSet(entityNodeMap, entity.name, entityNodeId))

\* lines 67-76: the edge of the left side, when its entity is known
LeftEdge(g, rel, relNodeId, entityNodeMap) ==
    IF MapHas(entityNodeMap, rel.leftSide.entityName)
    THEN PushEdge(g, DiagramEdge(EdgeId(g.edgeIdCounter + 1),
                                 MapGet(entityNodeMap, rel.leftSide.entityName), relNodeId,
                                 Some(rel.leftSide.cardinality), None,
                                 Some(rel.leftSide.participation), None))
    ELSE g

\* lines 78-87: the edge of the right side, when its entity is known
RightEdge(g, rel, relNodeId, entityNodeMap) ==
    IF MapHas(entityNodeMap, rel.rightSide.entityName)
    THEN PushEdge(g, DiagramEdge(EdgeId(g.edgeIdCounter + 1), relNodeId,
                                 MapGet(entityNodeMap, rel.rightSide.entityName),
                                 None, Some(rel.rightSide.cardinality),
                                 None, Some(rel.rightSide.participation)))
    ELSE g

\* lines 54-92: the relationship loop
RECURSIVE RelationshipLoop(_, _, _)
RelationshipLoop(rs, g, entityNodeMap) ==
    IF rs = <<>> THEN g
    ELSE LET rel == Head(rs)
             relNodeId == NodeId(g.nodeIdCounter + 1)
             relNode ==
                 DiagramNode(relNodeId,
                             IF rel.relationshipType = "identifying"
                             THEN "identifyingRelationship" ELSE "relationship",
                             rel.verb, Some(rel.name), None, None, None, None, None,
                             None, None, Some(rel.relationshipType))
             withNode == PushNode(g, relNode)
             withLeft == LeftEdge(withNode, rel, relNodeId, entityNodeMap)
             withRight == RightEdge(withLeft, rel, relNodeId, entityNodeMap)
         IN  RelationshipLoop(Tail(rs),
                              processAttributes(rel.attributes, relNodeId, withRight),
                              entityNodeMap)

\* astToDiagramModel(ast) entered with the module-level counters at c:
\* the model returned and the counters it leaves behind
astToDiagramModel(a, c) ==
    LET afterEntities == EntityLoop(a.entities, NewGraph(resetIdCounters(c)), <<>>)
    IN  RelationshipLoop(a.relationships, afterEntities.g, afterEntities.entityNodeMap)

----------------------------------------------------------------------------
(* Graph transformer, reverse  (diagram-model.ts 139-249) *)

\* lines 143-146, nodeMap.get(id): the last node of the list with that id
NodeMapHas(ns, id) == \E i \in 1..Len(ns) : ns[i].id = id
NodeMapGet(ns, id) ==
    ns[CHOOSE i \in 1..Len(ns) : ns[i].id = id /\ \A j \in (i + 1)..Len(ns) : ns[j].id # id]

\* lines 148-158, childrenMap.get(id) || []: the nodes at the far end of the
\* edges without cardinality that leave `id`, in edge order
RECURSIVE ChildrenOf(_, _, _)
ChildrenOf(ns, es, id) ==
    IF es = <<>> THEN <<>>
    ELSE (IF /\ ~HasCardinality(Head(es))
             /\ Head(es).sourceId = id
             /\ NodeMapHas(ns, Head(es).targetId)
          THEN <<NodeMapGet(ns, Head(es).targetId)>>
          ELSE <<>>)
         \o ChildrenOf(ns, Tail(es), id)

\* the RangeError the engine throws when the call stack is used up
StackOverflow == <<Text("Maximum call stack size exceeded")>>

\* a chain of nested getAttributesForNode calls longer than the node list has
\* entered some node twice with the same arguments and so never returns
StackLimit(m) == Len(m.nodes) + 1

\* lines 230-238: the attribute built from a child node
AttributeOfNode(child, subAttributes) ==
    Attribute(child.label,
              IF child.type = "compositeAttribute" THEN "composite"
              ELSE IF child.type = "multivaluedAttribute" THEN "multivalued"
              ELSE IF child.type = "derivedAttribute" THEN "derived"
              ELSE "simple",
              IF child.isPrimaryKey = Some(TRUE) THEN "pk"
              ELSE IF child.isForeignKey = Some(TRUE) THEN "fk"
              ELSE "none",
              child.fkTarget, child.dataType, subAttributes)

\* line 241: attr.subAttributes = the list the nested call returned
SubAttributesOf(r) == IF Threw(r) THEN r ELSE Ok(0, Some(r.val))

RECURSIVE getAttributesForNode(_, _, _)
RECURSIVE AttributesOfChildren(_, _, _, _)

\* lines 240-244: attr.subAttributes, then attributes.push(attr)
AttributePushed(child, sub, children, m, depth, attributes) ==
    IF Threw(sub) THEN sub
    ELSE AttributesOfChildren(children, m, depth,
                              Append(attributes, AttributeOfNode(child, sub.val)))

\* lines 228-246: the loop over the children
AttributesOfChildren(children, m, depth, attributes) ==
    IF children = <<>> THEN Ok(0, attributes)
    ELSE IF ~IsAttributeNode(Head(children))
    THEN AttributesOfChildren(Tail(children), m, depth, attributes)
    ELSE IF Head(children).type = "compositeAttribute"
    THEN AttributePushed(Head(children),
                         SubAttributesOf(getAttributesForNode(Head(children).id, m, depth + 1)),
                         Tail(children), m, depth, attributes)
    ELSE AttributePushed(Head(children), Ok(0, None),
                         Tail(children), m, depth, attributes)

\* lines 220-249, entered as the depth-th nested call
getAttributesForNode(nodeId, m, depth) ==
    IF depth > StackLimit(m) THEN Throw(0, StackOverflow)
    ELSE AttributesOfChildren(ChildrenOf(m.nodes, m.edges, nodeId), m, depth, <<>>)

\* lines 162-170: the entity loop
RECURSIVE ReverseEntities(_, _, _)
EntityPushed(node, attrs, ns, m, es) ==
    IF Threw(attrs) THEN attrs
    ELSE ReverseEntities(ns, m,
             Append(es, Entity(node.label,
                               IF IsSome(node.entityType) THEN Val(node.entityType)
                               ELSE IF node.type = "weakEntity" THEN "weak" ELSE "strong",
                               attrs.val, node.identifiedBy)))

ReverseEntities(ns, m, es) ==
    IF ns = <<>> THEN Ok(0, es)
    ELSE IF IsEntityNode(Head(ns))
    THEN EntityPushed(Head(ns), getAttributesForNode(Head(ns).id, m, 1), Tail(ns), m, es)
    ELSE ReverseEntities(Tail(ns), m, es)

\* lines 173-176: relEdges
RelEdges(m, id) ==
    SelectSeq(m.edges, LAMBDA e : (e.sourceId = id \/ e.targetId = id) /\ HasCardinality(e))

\* x || d on an optional field
OrElse(o, d) == IF IsSome(o) THEN Val(o) ELSE d

\* lines 179-180: the sides before any edge is looked at
LeftDefault == Side(<<>>, "1", "partial")
RightDefault == Side(<<>>, "M", "partial")

\* lines 182-202: the loop over relEdges; sides = [left, right]
RECURSIVE SidesLoop(_, _, _, _)
SidesLoop(relEdges, m, id, sides) ==
    IF relEdges = <<>> THEN sides
    ELSE IF Head(relEdges).sourceId # id
    THEN SidesLoop(Tail(relEdges), m, id,
             IF NodeMapHas(m.nodes, Head(relEdges).sourceId)
             THEN [sides EXCEPT !.left =
                      Side(NodeMapGet(m.nodes, Head(relEdges).sourceId).label,
                           OrElse(Head(relEdges).sourceCardinality, "1"),
                           OrElse(Head(relEdges).sourceParticipation, "partial"))]
             ELSE sides)
    ELSE IF Head(relEdges).targetId # id
    THEN SidesLoop(Tail(relEdges), m, id,
             IF NodeMapHas(m.nodes, Head(relEdges).targetId)
             THEN [sides EXCEPT !.right =
                      Side(NodeMapGet(m.nodes, Head(relEdges).targetId).label,
                           OrElse(Head(relEdges).targetCardinality, "M"),
                           OrElse(Head(relEdges).targetParticipation, "partial"))]
             ELSE sides)
    ELSE SidesLoop(Tail(relEdges), m, id, sides)

\* lines 171-215: the relationship loop
RECURSIVE ReverseRelationships(_, _, _)
RelationshipPushed(node, sides, attrs, ns, m, rs) ==
    IF Threw(attrs) THEN attrs
    ELSE ReverseRelationships(ns, m,
             Append(rs, Relationship(OrElse(node.name, node.label),
                                     IF IsSome(node.relationshipType)
                                     THEN Val(node.relationshipType)
                                     ELSE IF node.type = "identifyingRelationship"
                                          THEN "identifying" ELSE "normal",
                                     sides.left, sides.right, node.label, attrs.val)))

ReverseRelationships(ns, m, rs) ==
    IF ns = <<>> THEN Ok(0, rs)
    ELSE IF IsRelationshipNode(Head(ns))
    THEN RelationshipPushed(Head(ns),
                            SidesLoop(RelEdges(m, Head(ns).id), m, Head(ns).id,
                                      [left |-> LeftDefault, right |-> RightDefault]),
                            getAttributesForNode(Head(ns).id, m, 1), Tail(ns), m, rs)
    ELSE ReverseRelationships(Tail(ns), m, rs)

\* line 217, or the Error that left the function
ReverseResult(es, rs) ==
    IF Threw(es) THEN Raised(Val(es.err))
    ELSE IF Threw(rs) THEN Raised(Val(rs.err))
    ELSE Returned(AST(es.val, rs.val))

\* diagramModelToAST(model): what its caller receives
diagramModelToAST(m) ==
    ReverseResult(ReverseEntities(m.nodes, m, <<>>),
                  ReverseRelationships(m.nodes, m, <<>>))

----------------------------------------------------------------------------
(* Layout  (mxgraph-editor.ts 40-42, 413-495) *)

HORIZONTAL_SPACING == 200
VERTICAL_SPACING == 100
ATTRIBUTE_SPACING == 50

\* a number n / d in lowest terms, d > 0: what avgX / count yields
RECURSIVE GCD(_, _)
GCD(a, b) == IF b = 0 THEN a ELSE GCD(b, a % b)
Abs(n) == IF n < 0 THEN -n ELSE n
Q(n, d) == [n |-> n \div GCD(Abs(n), d), d |-> d \div GCD(Abs(n), d)]
QPlus(a, b) == Q(a.n * b.d + b.n * a.d, a.d * b.d)
QShift(a, k) == Q(a.n + k * a.d, a.d)
QOver(a, count) == Q(a.n, a.d * count)

\* erd-types.ts 72-73: a node with its optional x and y
Located(n, x, y) == [x |-> x, y |-> y] @@ n

\* positions.set(id, {x, y}) and positions.get(id) on a list of entries in
\* insertion order; set keeps the place of a key it already holds
PosHas(ps, id) == \E i \in 1..Len(ps) : ps[i].id = id
PosGet(ps, id) == ps[CHOOSE i \in 1..Len(ps) : ps[i].id = id]
PosSet(ps, id, x, y) ==
    IF PosHas(ps, id)
    THEN [i \in 1..Len(ps) |-> IF ps[i].id = id THEN [id |-> id, x |-> x, y |-> y] ELSE ps[i]]
    ELSE Append(ps, [id |-> id, x |-> x, y |-> y])

\* lines 422-427, parentMap.get(id): the source of the last edge without
\* cardinality that ends at `id`
ParentHas(es, id) == \E j \in 1..Len(es) : ~HasCardinality(es[j]) /\ es[j].targetId = id
ParentGet(es, id) ==
    es[CHOOSE j \in 1..Len(es) :
           /\ ~HasCardinality(es[j]) /\ es[j].targetId = id
           /\ \A k \in (j + 1)..Len(es) :
                  ~(~HasCardinality(es[k]) /\ es[k].targetId = id)].sourceId

\* an entity column taken from the x the node already has
EntityX_Existing(entity, entityX) ==
    IF IsSome(entity.x) THEN Val(entity.x) ELSE Q(entityX, 1)

\* line 431: x: entityX
EntityX(entity, entityX) == Q(entityX, 1)

\* an entity row in which entityX is never advanced
RECURSIVE PlaceEntities_NoStep(_, _, _)
PlaceEntities_NoStep(es, entityX, ps) ==
    IF es = <<>> THEN ps
    ELSE PlaceEntities_NoStep(Tail(es), entityX,
                              PosSet(ps, Head(es).id, EntityX(Head(es), entityX), 250))

\* lines 429-433: the entity row
RECURSIVE PlaceEntities(_, _, _)
PlaceEntities(es, entityX, ps) ==
    IF es = <<>> THEN ps
    ELSE PlaceEntities(Tail(es), entityX + HORIZONTAL_SPACING,
                       PosSet(ps, Head(es).id, EntityX(Head(es), entityX), 250))

\* line 442: the far end of a connected edge
OtherId(e, id) == IF e.sourceId = id THEN e.targetId ELSE e.sourceId

\* lines 440-450: avgX and count over the connected edges
RECURSIVE Average(_, _, _, _)
Average(connected, id, ps, acc) ==
    IF connected = <<>> THEN acc
    ELSE Average(Tail(connected), id, ps,
                 IF PosHas(ps, OtherId(Head(connected), id))
                 THEN [avgX |-> QPlus(acc.avgX, PosGet(ps, OtherId(Head(connected), id)).x),
                       count |-> acc.count + 1]
                 ELSE acc)

\* an x that is the sum of the far ends, not their mean
MeanX_Sum(acc) == IF acc.count > 0 THEN acc.avgX ELSE Q(400, 1)

\* line 452: count > 0 ? avgX / count : 400
MeanX(acc) == IF acc.count > 0 THEN QOver(acc.avgX, acc.count) ELSE Q(400, 1)

\* lines 435-454: the relationship row
RECURSIVE PlaceRelationships(_, _, _)
PlaceRelationships(rs, edges, ps) ==
    IF rs = <<>> THEN ps
    ELSE PlaceRelationships(Tail(rs), edges,
             PosSet(ps, Head(rs).id,
                    MeanX(Average(RelEdges([edges |-> edges], Head(rs).id), Head(rs).id, ps,
                                  [avgX |-> Q(0, 1), count |-> 0])),
                    250 + VERTICAL_SPACING + 50))

\* lines 456-464: the keys of attributeGroups in insertion order, and a group
RECURSIVE GroupKeys(_, _, _)
GroupKeys(attrs, edges, keys) ==
    IF attrs = <<>> THEN keys
    ELSE GroupKeys(Tail(attrs), edges,
                   IF /\ ParentHas(edges, Head(attrs).id)
                      /\ \A i \in 1..Len(keys) : keys[i] # ParentGet(edges, Head(attrs).id)
                   THEN Append(keys, ParentGet(edges, Head(attrs).id))
                   ELSE keys)

Group(attributes, edges, parentId) ==
    SelectSeq(attributes,
              LAMBDA a : ParentHas(edges, a.id) /\ ParentGet(edges, a.id) = parentId)

\* lines 482-490: the sub-attributes of one attribute, from subStartX
RECURSIVE PlaceSubAttributes(_, _, _, _, _)
PlaceSubAttributes(subAttrs, subIndex, subStartX, baseY, ps) ==
    IF subIndex >= Len(subAttrs) THEN ps
    ELSE PlaceSubAttributes(subAttrs, subIndex + 1, subStartX, baseY,
                            PosSet(ps, subAttrs[subIndex + 1].id,
                                   QShift(subStartX, subIndex * 40), baseY - 60))

\* lines 475-491: attrs.forEach
RECURSIVE PlaceGroup(_, _, _, _, _, _, _)
PlaceGroup(attrs, index, startX, baseY, attributes, edges, ps) ==
    IF index >= Len(attrs) THEN ps
    ELSE PlaceGroup(attrs, index + 1, startX, baseY, attributes, edges,
             PlaceSubAttributes(
                 Group(attributes, edges, attrs[index + 1].id), 0,
                 QShift(startX, index * ATTRIBUTE_SPACING
                                - ((Len(Group(attributes, edges, attrs[index + 1].id)) - 1) * 40)
                                  \div 2),
                 baseY,
                 PosSet(ps, attrs[index + 1].id,
                        QShift(startX, index * ATTRIBUTE_SPACING), baseY)))

\* a band that lies below whatever the parent is
BaseY_Below(entityNodes, parentId, parentPos) == parentPos.y + VERTICAL_SPACING

\* line 471: above an entity, below anything else
BaseY(entityNodes, parentId, parentPos) ==
    IF \E i \in 1..Len(entityNodes) : entityNodes[i].id = parentId
    THEN parentPos.y - VERTICAL_SPACING
    ELSE parentPos.y + VERTICAL_SPACING

\* lines 466-492: the loop over attributeGroups
RECURSIVE PlaceGroups(_, _, _, _, _)
PlaceGroups(keys, entityNodes, attributeNodes, edges, ps) ==
    IF keys = <<>> THEN ps
    ELSE IF ~PosHas(ps, Head(keys))
    THEN PlaceGroups(Tail(keys), entityNodes, attributeNodes, edges, ps)
    ELSE PlaceGroups(Tail(keys), entityNodes, attributeNodes, edges,
             PlaceGroup(Group(attributeNodes, edges, Head(keys)), 0,
                        QShift(PosGet(ps, Head(keys)).x,
                               -(((Len(Group(attributeNodes, edges, Head(keys))) - 1)
                                  * ATTRIBUTE_SPACING) \div 2)),
                        BaseY(entityNodes, Head(keys), PosGet(ps, Head(keys))),
                        attributeNodes, edges, ps))

\* calculateLayout(entities, relationships, attributes, edges): the Map it
\* returns
calculateLayout(entityNodes, relationshipNodes, attributeNodes, edges) ==
    PlaceGroups(GroupKeys(attributeNodes, edges, <<>>), entityNodes, attributeNodes, edges,
                PlaceRelationships(relationshipNodes, edges,
                                   PlaceEntities(entityNodes, 100, <<>>)))

----------------------------------------------------------------------------
(* The documents the parse pipeline is run on *)

nX == <<"x">>
nY == <<"y">>
nZ == <<"z">>
nA == <<"a">>
nB == <<"b">>
nR == <<"r">>
nT == <<"t">>

Line(words) == sp \o sp \o join(words, sp) \o nl

\* attribute lines: every form of the grammar's attribute rule, a name that is a
\* keyword (the sample's "total Derived"), and a stray comma
AttributeLines ==
    { Line(<<nX>>),
      Line(<<nX, nZ>>),
      Line(<<nY, sPK>>),
      Line(<<nZ, sFK>>),
      Line(<<nZ, sFK, sArrow, nA \o <<".">> \o nX>>),
      Line(<<nY, sComposite \o <<":">> >>),
      Line(<<nZ, sMultivalued>>),
      Line(<<nX \o <<":">>, nT>>),
      Line(<<sTotal, sDerived>>),
      Line(<< <<",">> >>) }

Heads ==
    { sEntity \o sp \o nA \o <<":">> \o nl,
      sWeak \o sp \o sEntity \o sp \o nB \o <<":">> \o nl }

RelationHeader(kw, leftPart, rightPart) ==
    kw \o sp \o nA \o sp \o <<"(">> \o leftPart \o <<")">> \o <<" ", "-", "-", " ">>
       \o <<"(">> \o rightPart \o <<")">> \o sp \o nB \o <<":", " ">> \o nR \o nl

\* what follows the attribute lines
Tails ==
    { <<>>,
      Line(<<sIdentified, sBy, nA \o <<".">> \o nX>>),
      Line(<<sIdentified, sBy, nA \o <<".">> \o nX, <<"+">>, nB \o <<".">> \o nY>>),
      Line(<<sIdentified, nX>>),
      sEntity \o sp \o nB \o <<":">> \o nl \o Line(<<nX>>),
      sEntity \o sp \o <<":">> \o nl,
      RelationHeader(sRelation, sOne, sM) \o Line(<<nX>>) }

EntityDocuments ==
    { h \o Concat(ls) \o tl :
        h \in Heads, ls \in SeqsUpTo(AttributeLines, MaxLines), tl \in Tails }

\* what stands in a cardinality position, and after it
CardinalityTexts == { sOne, sM, <<"2">>, <<"1", "1">>, nX, <<>> }
ParticipationTexts == { <<>>, <<",", " ">> \o sTotal, <<",", " ">> \o sPartial,
                        <<",", " ">> \o nX, <<",">> }

RelationDocuments ==
    { pre \o RelationHeader(kw, c1 \o p1, c2 \o p2) \o post :
        pre \in { <<>>, sEntity \o sp \o nA \o <<":">> \o nl \o Line(<<nX>>) },
        kw \in { sRelation, sIdentifying \o sp \o sRelation },
        c1 \in CardinalityTexts, p1 \in ParticipationTexts,
        c2 \in CardinalityTexts, p2 \in ParticipationTexts,
        post \in { <<>>, Line(<<nX>>) \o Line(<<nY, sPK>>) } }

Documents == EntityDocuments \cup RelationDocuments

----------------------------------------------------------------------------
(* The parse pipeline: parseDSL(D), then parseDSL(generateDSL(parseDSL(D))) *)

NoParse ==
    /\ parser = Idle
    /\ entities = <<>>
    /\ relationships = <<>>
    /\ result = NoResult

NoEditor ==
    /\ currentAST = None
    /\ currentModel = None
    /\ parseError = None
    /\ isUpdatingFromDSL = FALSE
    /\ timers = 0
    /\ parses = 0
    /\ cells = <<>>
    /\ originalModel = None
    /\ sameObject = FALSE
    /\ shapeIdCounter = 0

NoGraph ==
    /\ model = None
    /\ nodeIdCounter = 0
    /\ edgeIdCounter = 0
    /\ issued = <<>>
    /\ exported = NoResult
    /\ positions = None
    /\ edits = 0
    /\ NoEditor

Init ==
    /\ input \in Documents
    /\ lexer = NewTokenizer
    /\ NoParse
    /\ phase = "start"
    /\ pass = 1
    /\ ast = None
    /\ NoGraph

\* parseDSL lines 491-493: tokenize, construct the Parser
Tokenize ==
    /\ phase = "start"
    /\ lexer' = LexRun(input, NewTokenizer)
    /\ parser' = [tokens |-> lexer'.tokens, pos |-> 0]
    /\ entities' = <<>>
    /\ relationships' = <<>>
    /\ result' = NoResult
    /\ phase' = "parse"
    /\ UNCHANGED <<input, pass, ast, graphVars>>

\* a parse() that hands back what it had collected when an iteration throws
AfterIteration_Partial(r, es, rs) ==
    IF Threw(r)
    THEN [pos |-> r.pos, entities |-> es, relationships |-> rs,
          phase |-> "threw",
          result |-> [kind |-> "error", ast |-> Some(AST(es, rs)), error |-> r.err]]
    ELSE [pos |-> r.pos,
          entities |-> IF r.val[1] = "entity" THEN Append(es, r.val[2]) ELSE es,
          relationships |-> IF r.val[1] = "relationship" THEN Append(rs, r.val[2]) ELSE rs,
          phase |-> "parse", result |-> NoResult]

\* the effect of one iteration of parse()'s loop on the parser and its caller:
\* a throw leaves parse and parseDSL at once, nothing catches it on the way
AfterIteration(r, es, rs) ==
    IF Threw(r)
    THEN [pos |-> r.pos, entities |-> es, relationships |-> rs,
          phase |-> "threw", result |-> Raised(Val(r.err))]
    ELSE [pos |-> r.pos,
          entities |-> IF r.val[1] = "entity" THEN Append(es, r.val[2]) ELSE es,
          relationships |-> IF r.val[1] = "relationship" THEN Append(rs, r.val[2]) ELSE rs,
          phase |-> "parse", result |-> NoResult]

ParseStep ==
    /\ phase = "parse"
    /\ ~isAtEnd(parser.tokens, parser.pos)
    /\ \E after \in {AfterIteration(ParseIteration(parser.tokens, parser.pos),
                                     entities, relationships)} :
           /\ parser' = [parser EXCEPT !.pos = after.pos]
           /\ entities' = after.entities
           /\ relationships' = after.relationships
           /\ phase' = after.phase
           /\ result' = after.result
    /\ UNCHANGED <<lexVars, pass, ast, graphVars>>

\* line 183: return { entities, relationships }
ParseReturn ==
    /\ phase = "parse"
    /\ isAtEnd(parser.tokens, parser.pos)
    /\ result' = Returned(AST(entities, relationships))
    /\ phase' = "returned"
    /\ UNCHANGED <<lexVars, parser, entities, relationships, pass, ast, graphVars>>

\* generateDSL(ast), its text handed to parseDSL
Generate ==
    /\ phase = "ast"
    /\ input' = generateDSL(Val(ast))
    /\ pass' = 2
    /\ phase' = "start"
    /\ lexer' = NewTokenizer
    /\ UNCHANGED <<parseVars, ast, graphVars>>

\* the ids of a model, in list order
IdsOf(xs) == [i \in 1..Len(xs) |-> xs[i].id]

\* const model = astToDiagramModel(a): the module-level counters move, the
\* model is kept, and the call is entered in the history
Transformed(a) ==
    \E g \in {astToDiagramModel(a, [nodeIdCounter |-> nodeIdCounter,
                                     edgeIdCounter |-> edgeIdCounter])} :
        /\ model' = Some([nodes |-> g.nodes, edges |-> g.edges])
        /\ nodeIdCounter' = g.nodeIdCounter
        /\ edgeIdCounter' = g.edgeIdCounter
        /\ issued' = Append(issued, [ast |-> a, nodeIds |-> IdsOf(g.nodes),
                                     edgeIds |-> IdsOf(g.edges)])

\* erd-editor.tsx handleParseAndGenerate: the AST parseDSL(D) returned is kept
\* (setCurrentAST) and handed to astToDiagramModel (setCurrentModel)
KeepAst ==
    /\ phase = "returned"
    /\ pass = 1
    /\ ast' = result.ast
    /\ Transformed(Val(result.ast))
    /\ phase' = "ast"
    /\ parser' = Idle
    /\ entities' = <<>>
    /\ relationships' = <<>>
    /\ result' = NoResult
    /\ UNCHANGED <<lexVars, pass, exported, positions, edits,
                   pageVars, canvasVars>>

Next == Tokenize \/ ParseStep \/ ParseReturn \/ KeepAst \/ Generate

Spec == Init /\ [][Next]_vars

----------------------------------------------------------------------------
(* The AST pipeline: astToDiagramModel(ast) and parseDSL(generateDSL(ast))  *)
(* on the ASTs of the data model                                            *)

Pk(n) == Attribute(n, "simple", "pk", None, None, None)
Fk(n, e, a) ==
    Attribute(n, "simple", "fk", Some([entityName |-> e, attributeName |-> a]), None, None)
Multivalued(n) == Attribute(n, "multivalued", "none", None, None, None)
Derived(n) == Attribute(n, "derived", "none", None, None, None)
Typed(n, ty) == Attribute(n, "typed", "none", None, Some(ty), None)
Composite(n, subs) == Attribute(n, "composite", "none", None, None, Some(subs))

\* attributes of every kind; composites of no, one and two levels
ModelAttributes ==
    { SimpleAttribute(nX), Pk(nY), Fk(nZ, nA, nX), Multivalued(nZ), Derived(nX),
      Typed(nX, nT),
      Composite(nY, <<>>),
      Composite(nY, <<SimpleAttribute(nX)>>),
      Composite(nY, <<SimpleAttribute(nX), Typed(nZ, nT)>>),
      Composite(nY, <<Composite(nZ, <<SimpleAttribute(nX)>>), SimpleAttribute(nX)>>) }

ModelEntities ==
    { Entity(nA, "strong", attrs, None) : attrs \in SeqsUpTo(ModelAttributes, MaxAttrs) }
    \cup
    { Entity(nB, "weak", attrs,
             Some(<<[entityName |-> nA, attributeName |-> nX]>>)) :
        attrs \in SeqsUpTo(ModelAttributes, MaxAttrs) }

ModelRelationships ==
    { Relationship(nR, "normal", Side(nA, c1, p1), Side(e2, c2, p2), nR, attrs) :
        c1 \in {"1", "M"}, p1 \in {"total", "partial"}, e2 \in {nA, nB},
        c2 \in {"M"}, p2 \in {"partial"},
        attrs \in { <<>>, <<SimpleAttribute(nX)>>,
                    <<SimpleAttribute(nX), Composite(nY, <<SimpleAttribute(nZ)>>)>> } }
    \cup
    { Relationship(nR, "identifying", Side(nA, c1, "total"), Side(nA, "M", "total"),
                   nR, <<>>) : c1 \in {"1", "M"} }

ModelASTs ==
    { AST(<<e>>, <<>>) : e \in ModelEntities }
    \cup
    { AST(<<Entity(nA, "strong", <<Pk(nX)>>, None)>>, <<r>>) : r \in ModelRelationships }
    \cup
    { AST(<<Entity(nA, "strong", <<Pk(nX)>>, None), e>>, <<r>>) :
        e \in { Entity(nB, "strong", <<>>, None),
                Entity(nA, "strong", <<SimpleAttribute(nY)>>, None),
                Entity(nB, "strong",
                       <<Composite(nY, <<Composite(nZ, <<SimpleAttribute(nX)>>),
                                         SimpleAttribute(nX)>>)>>, None) },
        r \in ModelRelationships }

AstInit ==
    /\ ast \in {Some(a) : a \in ModelASTs}
    /\ input = <<>>
    /\ lexer = NewTokenizer
    /\ NoParse
    /\ phase = "given"
    /\ pass = 2
    /\ NoGraph

\* const model = astToDiagramModel(ast)
Transform ==
    /\ phase = "given"
    /\ Transformed(Val(ast))
    /\ phase' = "ast"
    /\ UNCHANGED <<lexVars, parseVars, pass, ast, exported, positions, edits,
                   pageVars, canvasVars>>

AstNext == Transform \/ Generate \/ Tokenize \/ ParseStep \/ ParseReturn

SpecAst == AstInit /\ [][AstNext]_vars

----------------------------------------------------------------------------
(* The id specification: astToDiagramModel and resetIdCounters called in    *)
(* any order on the module-level counters                                   *)

\* ASTs with different numbers of nodes and edges
IdASTs ==
    { AST(<<>>, <<>>),
      AST(<<Entity(nA, "strong", <<Pk(nX)>>, None)>>, <<>>),
      AST(<<Entity(nA, "strong", <<Composite(nY, <<SimpleAttribute(nX)>>)>>, None)>>, <<>>),
      AST(<<Entity(nA, "strong", <<>>, None)>>,
          <<Relationship(nR, "normal", Side(nA, "1", "total"), Side(nB, "M", "partial"),
                         nR, <<>>)>>),
      AST(<<Entity(nA, "strong", <<Pk(nX)>>, None), Entity(nB, "strong", <<>>, None)>>,
          <<Relationship(nR, "normal", Side(nA, "1", "total"), Side(nB, "M", "partial"),
                         nR, <<SimpleAttribute(nX)>>)>>) }

IdsInit ==
    /\ ast = None
    /\ input = <<>>
    /\ lexer = NewTokenizer
    /\ NoParse
    /\ phase = "ids"
    /\ pass = 1
    /\ NoGraph

\* one more call astToDiagramModel(a), on any of the ASTs
Retransform ==
    /\ phase = "ids"
    /\ Len(issued) < MaxRuns
    /\ \E a \in IdASTs :
           /\ ast' = Some(a)
           /\ Transformed(a)
    /\ UNCHANGED <<lexVars, parseVars, phase, pass, exported, positions, edits,
                   pageVars, canvasVars>>

\* a call resetIdCounters() from outside the transform (it is exported)
ResetIds ==
    /\ phase = "ids"
    /\ \E c \in {resetIdCounters([nodeIdCounter |-> nodeIdCounter,
                                   edgeIdCounter |-> edgeIdCounter])} :
           /\ nodeIdCounter' = c.nodeIdCounter
           /\ edgeIdCounter' = c.edgeIdCounter
    /\ UNCHANGED <<lexVars, parseVars, phase, pass, ast, model, issued, exported, positions, edits,
                   pageVars, canvasVars>>

IdsNext == Retransform \/ ResetIds

SpecIds == IdsInit /\ [][IdsNext]_vars

----------------------------------------------------------------------------
(* The edit specification: a model astToDiagramModel returned is edited     *)
(* (nodes and edges deleted, edges added, edge fields cleared) and then     *)
(* handed to diagramModelToAST                                              *)

EditASTs ==
    { AST(<<Entity(nA, "strong", <<>>, None), Entity(nB, "strong", <<>>, None)>>,
          <<Relationship(nR, "normal", Side(nA, "1", "total"), Side(nB, "M", "partial"),
                         nR, <<Composite(nY, <<>>)>>)>>),
      AST(<<Entity(nA, "strong", <<Pk(nX)>>, None),
            Entity(nB, "weak", <<>>, Some(<<[entityName |-> nA, attributeName |-> nX]>>))>>,
          <<Relationship(nR, "identifying", Side(nA, "1", "total"), Side(nB, "M", "total"),
                         nR, <<>>)>>) }

\* the model astToDiagramModel returns, as a DiagramModel
ModelOf(g) == [nodes |-> g.nodes, edges |-> g.edges]

EditInit ==
    /\ ast \in {Some(a) : a \in EditASTs}
    /\ model = Some(ModelOf(astToDiagramModel(Val(ast), [nodeIdCounter |-> 0,
                                                         edgeIdCounter |-> 0])))
    /\ nodeIdCounter = Len(Val(model).nodes)
    /\ edgeIdCounter = Len(Val(model).edges)
    /\ issued = <<>>
    /\ exported = NoResult
    /\ positions = None
    /\ edits = 0
    /\ NoEditor
    /\ input = <<>>
    /\ lexer = NewTokenizer
    /\ NoParse
    /\ phase = "edit"
    /\ pass = 1

\* the sequence xs without its i-th element
Without(xs, i) == SubSeq(xs, 1, i - 1) \o SubSeq(xs, i + 1, Len(xs))

\* the frame of an edit: the model changes, nothing else does
Edited(m) ==
    /\ phase = "edit"
    /\ edits < MaxEdits
    /\ model' = Some(m)
    /\ edits' = edits + 1
    /\ UNCHANGED <<lexVars, parseVars, phase, pass, ast, counterVars, issued,
                   exported, positions,
                   pageVars, canvasVars>>

\* a node leaves the model; the edges that named it stay
DeleteNode ==
    \E i \in 1..Len(Val(model).nodes) :
        Edited([Val(model) EXCEPT !.nodes = Without(@, i)])

DeleteEdge ==
    \E j \in 1..Len(Val(model).edges) :
        Edited([Val(model) EXCEPT !.edges = Without(@, j)])

\* the fields a new edge comes with: none, or a target cardinality alone
NewEdgeFields == { None, Some("1") }

\* an edge between two nodes of the model, in either direction, loops included
AddEdge ==
    \E i, k \in 1..Len(Val(model).nodes), c \in NewEdgeFields :
        Edited([Val(model) EXCEPT !.edges =
                   Append(@, DiagramEdge(<<"edge", "new", edits>>,
                                         Val(model).nodes[i].id, Val(model).nodes[k].id,
                                         None, c, None, None))])

\* an edge loses its cardinalities and keeps its participations
ClearCardinality ==
    \E j \in 1..Len(Val(model).edges) :
        /\ HasCardinality(Val(model).edges[j])
        /\ Edited([Val(model) EXCEPT !.edges[j].sourceCardinality = None,
                                     !.edges[j].targetCardinality = None])

\* an edge loses its participations and keeps its cardinalities
ClearParticipation ==
    \E j \in 1..Len(Val(model).edges) :
        /\ \/ IsSome(Val(model).edges[j].sourceParticipation)
           \/ IsSome(Val(model).edges[j].targetParticipation)
        /\ Edited([Val(model) EXCEPT !.edges[j].sourceParticipation = None,
                                     !.edges[j].targetParticipation = None])

\* erd-editor.tsx handleExportDSL: const ast = diagramModelToAST(liveModel)
Reverse ==
    /\ phase = "edit"
    /\ exported' = diagramModelToAST(Val(model))
    /\ phase' = "exported"
    /\ UNCHANGED <<lexVars, parseVars, pass, ast, model, counterVars, issued,
                   positions, edits,
                   pageVars, canvasVars>>

EditNext ==
    DeleteNode \/ DeleteEdge \/ AddEdge \/ ClearCardinality \/ ClearParticipation \/ Reverse

SpecEdit == EditInit /\ [][EditNext]_vars

----------------------------------------------------------------------------
(* The layout specification: calculateLayout called on a model whose nodes  *)
(* are moved about between the calls                                        *)

LayoutASTs ==
    { AST(<<Entity(nA, "strong",
                   <<Composite(nY, <<SimpleAttribute(nX), SimpleAttribute(nZ)>>), Pk(nX)>>,
                   None),
            Entity(nB, "strong", <<>>, None)>>,
          <<Relationship(nR, "normal", Side(nA, "1", "total"), Side(nB, "M", "partial"),
                         nR, <<SimpleAttribute(nX), Derived(nZ)>>)>>),
      AST(<<Entity(nA, "strong", <<SimpleAttribute(nX)>>, None)>>,
          <<Relationship(nR, "normal", Side(nA, "1", "total"), Side(nB, "M", "partial"),
                         nR, <<>>)>>),
      AST(<<>>,
          <<Relationship(nR, "normal", Side(nA, "1", "total"), Side(nB, "M", "partial"),
                         nR, <<Composite(nY, <<SimpleAttribute(nX)>>)>>)>>),
      AST(<<Entity(nA, "strong", <<>>, None), Entity(nB, "strong", <<>>, None),
            Entity(nZ, "strong", <<>>, None)>>,
          <<Relationship(nR, "normal", Side(nB, "1", "total"), Side(nB, "M", "partial"),
                         nR, <<>>),
            Relationship(nT, "normal", Side(nA, "1", "total"), Side(nZ, "M", "partial"),
                         nT, <<SimpleAttribute(nX), SimpleAttribute(nY)>>)>>) }

\* the nodes of a list, each with x and y undefined
Unplaced(ns) == [i \in 1..Len(ns) |-> Located(ns[i], None, None)]

LayoutInit ==
    /\ ast \in {Some(a) : a \in LayoutASTs}
    /\ \E g \in {astToDiagramModel(Val(ast), [nodeIdCounter |-> 0, edgeIdCounter |-> 0])} :
           /\ model = Some([nodes |-> Unplaced(g.nodes), edges |-> g.edges])
           /\ nodeIdCounter = g.nodeIdCounter
           /\ edgeIdCounter = g.edgeIdCounter
    /\ issued = <<>>
    /\ exported = NoResult
    /\ positions = <<>>
    /\ edits = 0
    /\ NoEditor
    /\ input = <<>>
    /\ lexer = NewTokenizer
    /\ NoParse
    /\ phase = "layout"
    /\ pass = 1

\* renderDiagram lines 303-307: the three filters and the call; the entry
\* added to the history holds the arguments, the Map returned and the
\* arguments as the call left them
Layout ==
    /\ phase = "layout"
    /\ Len(positions) < MaxLayouts
    /\ positions' =
           Append(positions,
                  [nodes |-> Val(model).nodes, edges |-> Val(model).edges,
                   map |-> calculateLayout(SelectSeq(Val(model).nodes, IsEntityNode),
                                           SelectSeq(Val(model).nodes, IsRelationshipNode),
                                           SelectSeq(Val(model).nodes, IsAttributeNode),
                                           Val(model).edges),
                   left |-> Val(model)])
    /\ UNCHANGED <<lexVars, parseVars, phase, pass, ast, model, counterVars, issued,
                   exported, edits,
                   pageVars, canvasVars>>

\* where a dragged node is dropped
Drop == [x |-> Q(40, 1), y |-> 60]

\* extractModelFromGraph lines 510-519 after a node was dragged: the node
\* takes the x and y of its cell
Move ==
    /\ phase = "layout"
    /\ edits < MaxEdits
    /\ \E i \in 1..Len(Val(model).nodes) :
           /\ Val(model).nodes[i].x # Some(Drop.x)
           /\ model' = Some([Val(model) EXCEPT !.nodes[i] = Located(@, Some(Drop.x), Some(Drop.y))])
    /\ edits' = edits + 1
    /\ UNCHANGED <<lexVars, parseVars, phase, pass, ast, counterVars, issued,
                   exported, positions,
                   pageVars, canvasVars>>

\* renderDiagram line 309 and its likes: the cell of a node stands where the
\* Map says, at (100, 100) when the Map has no entry
CellOf(map, n) ==
    IF PosHas(map, n.id)
    THEN Located(n, Some(PosGet(map, n.id).x), Some(PosGet(map, n.id).y))
    ELSE Located(n, Some(Q(100, 1)), Some(100))

\* extractModelFromGraph lines 510-519 after renderDiagram: every node takes
\* the x and y the last layout gave its cell
Settle ==
    /\ phase = "layout"
    /\ positions # <<>>
    /\ model' = Some([Val(model) EXCEPT !.nodes =
                         [i \in 1..Len(@) |-> CellOf(positions[Len(positions)].map, @[i])]])
    /\ model' # model
    /\ UNCHANGED <<lexVars, parseVars, phase, pass, ast, counterVars, issued,
                   exported, positions, edits,
                   pageVars, canvasVars>>

LayoutNext == Layout \/ Move \/ Settle

SpecLayout == LayoutInit /\ [][LayoutNext]_vars

----------------------------------------------------------------------------
(* The lexer specification: every raw input, one loop iteration per step *)

LexAlphabet == {"a", "M", "1", "2", " ", "NL", "#", "-", ">", "EMDASH", "?", ":"}

LexInit ==
    /\ input \in SeqsUpTo(LexAlphabet, MaxInputLen)
    /\ lexer = NewTokenizer
    /\ NoParse
    /\ phase = "lex"
    /\ pass = 1
    /\ ast = None
    /\ NoGraph

LexStep ==
    /\ phase = "lex"
    /\ ~lexer.done
    /\ lexer.pos < Len(input)
    /\ lexer' = LexIteration(input, lexer)
    /\ UNCHANGED <<input, parseVars, phase, pass, ast, graphVars>>

LexEnd ==
    /\ phase = "lex"
    /\ ~lexer.done
    /\ lexer.pos >= Len(input)
    /\ lexer' = LexFinish(lexer)
    /\ UNCHANGED <<input, parseVars, phase, pass, ast, graphVars>>

LexNext == LexStep \/ LexEnd

\* tokenize() is a synchronous loop: it keeps running until it returns
SpecLex == LexInit /\ [][LexNext]_vars /\ WF_vars(LexNext)

----------------------------------------------------------------------------
(* Properties *)

Finished == phase \in {"returned", "threw"}

\* the Error parseDSL raised and the token the parser stood on when it raised
ErrorMessage == Val(result.error)
OffendingToken == current(parser.tokens, parser.pos)

\* the fragment of `kind` that follows the literal `text` in a message
Follows(msg, text, frag) ==
    \E i \in 1..(Len(msg) - 1) : msg[i] = Text(text) /\ msg[i + 1] = frag
Mentions(msg, word) == \E i \in 1..Len(msg) : msg[i] = Text(word)

\* C1: round trip over documents.  When parseDSL accepted D, parseDSL of
\* generateDSL(parseDSL(D)) returns an AST, and that AST equals parseDSL(D).
C1_RoundTrip ==
    (pass = 2 /\ Finished) => (result.kind = "ast" /\ result.ast = ast)

\* C2: the printer is a right inverse of the parser.  For an AST of the data
\* model, parseDSL(generateDSL(ast)) returns an AST structurally equal to ast.
C2_PrinterRightInverse ==
    (IsSome(ast) /\ Finished) => (phase = "returned" /\ Val(result.ast) = Val(ast))

\* C3: parsing is all-or-nothing.  parseDSL hands its caller nothing while it
\* runs; it ends either returning the complete AST (the parser at EOF, every
\* declaration collected) or raising an Error that carries no entity and no
\* relationship, raised at the token of the mismatch, after which no further
\* parsing step is taken.
C3_AllOrNothing ==
    /\ phase \in {"start", "parse"} => result = NoResult
    /\ phase = "returned" =>
          /\ result = Returned(AST(entities, relationships))
          /\ isAtEnd(parser.tokens, parser.pos)
    /\ phase = "threw" =>
          /\ result.kind = "error"
          /\ result.ast = None
          /\ Follows(ErrorMessage, "at line", Num(OffendingToken.line))
          /\ ~ENABLED Next

\* C3 witness: an Error raised after earlier declarations had been parsed
C3_Witness ==
    /\ phase = "threw"
    /\ pass = 1
    /\ Len(entities) >= 1
    /\ result.ast = None

\* C4: every Error parseDSL raises names what was expected and the actual
\* token, and carries the line and the column of the offending token.
C4_ErrorsCarryPosition ==
    phase = "threw" =>
        /\ ErrorMessage[1] = Text("Expected")
        /\ Follows(ErrorMessage, "but got", Type(OffendingToken.type))
        /\ Follows(ErrorMessage, "at line", Num(OffendingToken.line))
        /\ Follows(ErrorMessage, ", column", Num(OffendingToken.column))

\* the type of the token at 0-based index i, "NONE" past the end of the list
Ty(t, i) == IF i >= 0 /\ i < Len(t) THEN t[i + 1].type ELSE "NONE"

\* The grammar of a relation header, read off the token types alone.
\* SideEnd: the index of the ")" of a side whose cardinality stands at c; -1 when
\* the side is not of the form  card ")"  or  card "," part ")".
SideEnd(t, c, participationAllowed) ==
    IF Ty(t, c) \notin {"ONE", "M"} THEN -1
    ELSE IF Ty(t, c + 1) = "RPAREN" THEN c + 1
    ELSE IF participationAllowed /\ Ty(t, c + 1) = "COMMA"
            /\ Ty(t, c + 2) \in {"TOTAL", "PARTIAL"} /\ Ty(t, c + 3) = "RPAREN"
    THEN c + 3
    ELSE -1

\* the index of the first cardinality of the declaration that starts at p; -1 when
\* p does not start a relation header up to its first "("
FirstCardinalityAt(t, p) ==
    IF Ty(t, p) = "RELATION" /\ Ty(t, p + 1) = "IDENTIFIER" /\ Ty(t, p + 2) = "LPAREN"
    THEN p + 3
    ELSE IF Ty(t, p) = "IDENTIFYING" /\ Ty(t, p + 1) = "RELATION"
            /\ Ty(t, p + 2) = "IDENTIFIER" /\ Ty(t, p + 3) = "LPAREN"
    THEN p + 4
    ELSE -1

\* the index of the second cardinality; -1 when the header is not well formed up to
\* its second "("
SecondCardinalityAt(t, p) ==
    LET c1 == FirstCardinalityAt(t, p)
        end == IF c1 < 0 THEN -1 ELSE SideEnd(t, c1, Ty(t, p) = "RELATION")
    IN  IF end >= 0 /\ Ty(t, end + 1) = "DASH" /\ Ty(t, end + 2) = "LPAREN"
        THEN end + 3
        ELSE -1

\* the cardinality positions the declaration starting at p has
CardinalityPositions(t, p) ==
    {c \in {FirstCardinalityAt(t, p), SecondCardinalityAt(t, p)} : c >= 0}

\* C5: cardinality domain.  When the declaration the parser is about to read is a
\* Relation or Identifying Relation whose header is well formed up to a
\* cardinality position (the first token after either "(") and the token there is
\* neither 1 nor M, parseDSL raises an Error whose message mentions "cardinality".
C5_CardinalityDomain ==
    [][ ( /\ phase = "parse"
          /\ \E c \in CardinalityPositions(parser.tokens, parser.pos) :
                 Ty(parser.tokens, c) \notin {"ONE", "M"} )
        => ( /\ phase' = "threw"
             /\ result'.kind = "error"
             /\ Mentions(Val(result'.error), "cardinality") ) ]_vars

\* C5 witness: the Error raised on a number other than 1 in the second
\* cardinality position of a Relation
C5_Witness ==
    /\ phase = "threw"
    /\ Mentions(ErrorMessage, "cardinality")
    /\ OffendingToken.type = "NUMBER"
    /\ \E p \in 0..parser.pos :
           /\ Ty(parser.tokens, p) = "RELATION"
           /\ SecondCardinalityAt(parser.tokens, p) = parser.pos

\* the participation a side with its cardinality at c is written with
WrittenParticipation(t, c) ==
    IF Ty(t, c + 1) = "COMMA"
    THEN IF Ty(t, c + 2) = "TOTAL" THEN "total" ELSE "partial"
    ELSE "partial"

\* C6: default participation.  Every normal Relation declaration the parser
\* accepts yields a relationship whose side written (card) has participation
\* 'partial' and whose side written (card, total|partial) has the written one.
C6_DefaultParticipation ==
    [][ ( /\ phase = "parse"
          /\ Ty(parser.tokens, parser.pos) = "RELATION"
          /\ phase' = "parse" )
        => ( /\ Len(relationships') = Len(relationships) + 1
             /\ LET rel == relationships'[Len(relationships')]
                    c1 == FirstCardinalityAt(parser.tokens, parser.pos)
                    c2 == SecondCardinalityAt(parser.tokens, parser.pos)
                IN  /\ c1 >= 0
                    /\ c2 >= 0
                    /\ rel.relationshipType = "normal"
                    /\ rel.leftSide.participation = WrittenParticipation(parser.tokens, c1)
                    /\ rel.rightSide.participation = WrittenParticipation(parser.tokens, c2)
           ) ]_vars

\* C6 witness: a parsed Relation whose left side was written (card) and whose
\* right side was written (card, total)
C6_Witness ==
    /\ pass = 1
    /\ phase = "returned"
    /\ \E i \in 1..Len(relationships) :
           /\ relationships[i].relationshipType = "normal"
           /\ relationships[i].leftSide.participation = "partial"
           /\ relationships[i].rightSide.participation = "total"
    /\ \E p \in 0..(Len(parser.tokens) - 1) :
           /\ Ty(parser.tokens, p) = "RELATION"
           /\ FirstCardinalityAt(parser.tokens, p) >= 0
           /\ Ty(parser.tokens, FirstCardinalityAt(parser.tokens, p) + 1) = "RPAREN"
           /\ SecondCardinalityAt(parser.tokens, p) >= 0
           /\ Ty(parser.tokens, SecondCardinalityAt(parser.tokens, p) + 1) = "COMMA"

\* the 0-based positions right after an  IDENTIFIER "Composite" ":"
SubAttributeStarts(t) ==
    {i + 3 : i \in {j \in 0..(Len(t) - 1) :
                       /\ Ty(t, j) = "IDENTIFIER"
                       /\ Ty(t, j + 1) = "COMPOSITE"
                       /\ Ty(t, j + 2) = "COLON"}}

DeclarationKeywords == {"ENTITY", "WEAK", "RELATION", "IDENTIFYING", "IDENTIFIED"}
AttributeMarkers == {"PK", "FK", "COMPOSITE", "MULTIVALUED", "DERIVED"}

AtDeclarationKeyword(t, q) == Ty(t, q) \in DeclarationKeywords
AtListEnd(t, q) == Ty(t, q) # "IDENTIFIER" \/ Ty(t, q + 1) \in AttributeMarkers

\* the least index q >= p at a declaration keyword (the index of EOF when none)
RECURSIVE NextDeclarationKeyword(_, _)
NextDeclarationKeyword(t, p) ==
    IF p >= Len(t) - 1 \/ AtDeclarationKeyword(t, p) THEN p
    ELSE NextDeclarationKeyword(t, p + 1)

\* the least index q >= p at the end of an identifier list
RECURSIVE IdentifierListEnd(_, _)
IdentifierListEnd(t, p) ==
    IF p >= Len(t) - 1 \/ AtListEnd(t, p) THEN p ELSE IdentifierListEnd(t, p + 1)

\* the simple attributes named by the tokens p .. q-1
NamedBy(t, p, q) == [k \in 1..(q - p) |-> SimpleAttribute(t[p + k].value)]

\* C7 as claimed: after "Composite :" the sub-attribute list runs up to the next
\* Entity / Weak / Relation / Identifying / Identified keyword, stops exactly
\* there, and leaves that keyword as the current token.
C7_StopsAtNextKeyword ==
    \A p \in SubAttributeStarts(parser.tokens) :
        LET t == parser.tokens
            k == NextDeclarationKeyword(t, p)
            r == parseSubAttributeList(t, p)
        IN  AtDeclarationKeyword(t, k) => (r.pos = k /\ Len(r.val) = k - p)

\* C7 as amended: after "Composite :" the parser takes the following identifiers
\* as simple sub-attributes, in order, up to and not including the first token
\* that is not an identifier or the first identifier directly followed by PK,
\* FK, Composite, Multivalued or Derived; it raises nothing, consumes no
\* Entity / Weak / Relation / Identifying / Identified keyword, and leaves the
\* token it stopped at as the current token of the enclosing rule.
C7_CompositeTermination ==
    \A p \in SubAttributeStarts(parser.tokens) :
        LET t == parser.tokens
            q == IdentifierListEnd(t, p)
            r == parseSubAttributeList(t, p)
        IN  /\ ~Threw(r)
            /\ r.pos = q
            /\ r.val = NamedBy(t, p, q)
            /\ \A i \in p..(q - 1) : Ty(t, i) \notin DeclarationKeywords

\* C7 witness: a parsed composite whose two sub-attributes end at a declaration
\* keyword, which the enclosing rules went on from
C7_Witness ==
    /\ pass = 1
    /\ phase = "returned"
    /\ \E p \in SubAttributeStarts(parser.tokens) :
           /\ parseSubAttributeList(parser.tokens, p).pos = p + 2
           /\ AtDeclarationKeyword(parser.tokens, p + 2)
    /\ \E i \in 1..Len(entities) : \E j \in 1..Len(entities[i].attributes) :
           /\ entities[i].attributes[j].attributeType = "composite"
           /\ Len(Val(entities[i].attributes[j].subAttributes)) = 2

WeakHeaderAt(t, p) ==
    /\ Ty(t, p) = "WEAK"
    /\ Ty(t, p + 1) = "ENTITY"
    /\ Ty(t, p + 2) = "IDENTIFIER"
    /\ Ty(t, p + 3) = "COLON"

\* where the attribute lines of a declaration end: the next declaration keyword
AttributeLinesEnd(t, p) == NextDeclarationKeyword(t, p)

\* the attribute lines p .. q-1 hold no token an attribute rule can fail on
PlainAttributeLines(t, p, q) ==
    \A i \in p..(q - 1) : Ty(t, i) \notin {"COMPOSITE", "COLON", "ARROW"}

\* C8: a Weak Entity declaration with no Identified By clause parses: the step
\* raises nothing on account of the missing clause and yields an entity of kind
\* weak whose identifiedBy is undefined; with the clause, the entity's
\* identifiedBy list has at least one target.
C8_WeakEntityWithoutClause ==
    [][ (phase = "parse" /\ WeakHeaderAt(parser.tokens, parser.pos))
        => LET t == parser.tokens
               q == AttributeLinesEnd(t, parser.pos + 4)
               clause == Ty(t, q) = "IDENTIFIED"
               e == entities'[Len(entities')]
           IN  /\ phase' \in {"parse", "threw"}
               /\ (~clause /\ PlainAttributeLines(t, parser.pos + 4, q)) => phase' = "parse"
               /\ (~clause /\ phase' = "threw") =>
                      Val(result'.error)[2] \notin {Type("IDENTIFIED"), Type("BY")}
               /\ phase' = "parse" =>
                      /\ Len(entities') = Len(entities) + 1
                      /\ e.entityType = "weak"
                      /\ IF clause
                         THEN IsSome(e.identifiedBy) /\ Len(Val(e.identifiedBy)) >= 1
                         ELSE e.identifiedBy = None ]_vars

\* C8 witness: a parse that returned a weak entity with attributes and no
\* identifiedBy from a document with no "Identified"
C8_Witness ==
    /\ pass = 1
    /\ phase = "returned"
    /\ \A i \in 0..(Len(parser.tokens) - 1) : Ty(parser.tokens, i) # "IDENTIFIED"
    /\ \E i \in 1..Len(entities) :
           /\ entities[i].entityType = "weak"
           /\ entities[i].identifiedBy = None
           /\ Len(entities[i].attributes) >= 1

\* C9: the lexer is total.  On every input the loop of tokenize moves forward
\* in every iteration, never past the end of the input, and ends; the tokens it
\* returns end with EOF and hold no EOF before that.
C9_LexerTotal ==
    /\ [](lexer.pos <= Len(input))
    /\ [](\A i \in 1..Len(lexer.tokens) :
              lexer.tokens[i].type = "EOF" <=> (lexer.done /\ i = Len(lexer.tokens)))
    /\ [](lexer.done => Len(lexer.tokens) >= 1)
    /\ [][lexer'.pos > lexer.pos \/ lexer'.done]_vars
    /\ <>(lexer.done)

\* C9 witness: a finished tokenize that stepped over an unrecognised character
\* and a lone hyphen and still produced a token before EOF
C9_Witness ==
    /\ lexer.done
    /\ \E i \in 1..Len(input) : input[i] = "?"
    /\ \E i \in 1..Len(input) : input[i] = "-" /\ CharAt(input, i) \notin {"-", ">"}
    /\ Len(lexer.tokens) = 2

\* the attributes of a list, nested sub-attributes included
RECURSIVE CountAttributes(_)
CountAttributes(attrs) ==
    IF attrs = <<>> THEN 0
    ELSE 1 + (IF IsSome(Head(attrs).subAttributes)
              THEN CountAttributes(Val(Head(attrs).subAttributes)) ELSE 0)
           + CountAttributes(Tail(attrs))

RECURSIVE CountOwned(_)
CountOwned(owners) ==
    IF owners = <<>> THEN 0
    ELSE CountAttributes(Head(owners).attributes) + CountOwned(Tail(owners))

\* how many nodes of ns have a type tag among `types`
CountNodes(ns, types) == Cardinality({i \in 1..Len(ns) : ns[i].type \in types})

IsContainmentEdge(e) ==
    /\ e.sourceCardinality = None
    /\ e.targetCardinality = None
    /\ e.sourceParticipation = None
    /\ e.targetParticipation = None

\* C10: astToDiagramModel yields one node per entity, one per relationship and
\* one per attribute (nested sub-attributes included), no other node, and one
\* containment edge per attribute.
C10_NodeAndContainmentCounts ==
    IsSome(model) =>
        LET m == Val(model)
            a == Val(ast)
            attributes == CountOwned(a.entities) + CountOwned(a.relationships)
        IN  /\ CountNodes(m.nodes, EntityTypes) = Len(a.entities)
            /\ CountNodes(m.nodes, RelationshipTypes) = Len(a.relationships)
            /\ CountNodes(m.nodes, AttributeTypes) = attributes
            /\ Len(m.nodes) = Len(a.entities) + Len(a.relationships) + attributes
            /\ Cardinality({j \in 1..Len(m.edges) : IsContainmentEdge(m.edges[j])})
                   = attributes
            /\ \A i \in 1..Len(m.nodes) :
                   IsAttributeNode(m.nodes[i]) =>
                       Cardinality({j \in 1..Len(m.edges) :
                                       /\ IsContainmentEdge(m.edges[j])
                                       /\ m.edges[j].targetId = m.nodes[i].id}) = 1

\* C10 witness: the model of an AST with a relationship and a composite nested
\* two levels deep
C10_Witness ==
    /\ IsSome(model)
    /\ Len(Val(ast).relationships) = 1
    /\ \E i, j, k \in 1..Len(Val(model).nodes) :
           LET ns == Val(model).nodes
           IN  /\ IsAttributeNode(ns[i]) /\ ns[i].parentId = Some(ns[j].id)
               /\ IsAttributeNode(ns[j]) /\ ns[j].parentId = Some(ns[k].id)
               /\ IsAttributeNode(ns[k])

----------------------------------------------------------------------------
(* The graph astToDiagramModel returns *)

\* the node of the k-th relationship: relationships are pushed in AST order
RelationshipNodeOf(ns, k) ==
    SelectSeq(ns, IsRelationshipNode)[k]

\* the edges of es that carry a cardinality and touch the node `id`
RelationalEdgesAt(es, id) ==
    SelectSeq(es, LAMBDA e : HasCardinality(e) /\ (e.sourceId = id \/ e.targetId = id))

\* edge e is the edge of `side` at the relationship node `id`, in either of
\* the two directions astToDiagramModel draws
CarriesSide(e, id, side) ==
    \/ /\ e.targetId = id
       /\ e.sourceCardinality = Some(side.cardinality)
       /\ e.sourceParticipation = Some(side.participation)
    \/ /\ e.sourceId = id
       /\ e.targetCardinality = Some(side.cardinality)
       /\ e.targetParticipation = Some(side.participation)

\* the model of a parsed document is in place
ParsedModel == pass = 1 /\ phase = "ast" /\ IsSome(model)

\* C11: for every AST parseDSL produced and every relationship in it,
\* astToDiagramModel emits exactly two relational edges at the relationship's
\* node, one per side, each carrying that side's cardinality and participation.
C11_TwoRelationalEdges ==
    ParsedModel =>
        \A k \in 1..Len(Val(ast).relationships) :
            LET rel == Val(ast).relationships[k]
                id == RelationshipNodeOf(Val(model).nodes, k).id
                at == RelationalEdgesAt(Val(model).edges, id)
            IN  /\ Len(at) = 2
                /\ \E i, j \in 1..Len(at) :
                       /\ i # j
                       /\ CarriesSide(at[i], id, rel.leftSide)
                       /\ CarriesSide(at[j], id, rel.rightSide)

\* C12: the ids astToDiagramModel returns depend only on the AST: two calls on
\* the same AST return the same node ids and edge ids, whatever calls of
\* astToDiagramModel or resetIdCounters came between them.
C12_IdsDependOnlyOnAst ==
    \A i, j \in 1..Len(issued) :
        issued[i].ast = issued[j].ast =>
            /\ issued[i].nodeIds = issued[j].nodeIds
            /\ issued[i].edgeIds = issued[j].edgeIds

\* C12 witness: an AST with nodes and edges transformed a first and a third
\* time, a different AST with nodes in between, the counters left non-zero
C12_Witness ==
    /\ Len(issued) = 3
    /\ issued[1].ast = issued[3].ast
    /\ issued[2].ast # issued[1].ast
    /\ issued[1].edgeIds # <<>>
    /\ issued[2].nodeIds # <<>>
    /\ nodeIdCounter > 0

\* the owner of a node: entity, relationship or attribute
NodeKind(n) ==
    IF IsEntityNode(n) THEN "entity"
    ELSE IF IsRelationshipNode(n) THEN "relationship"
    ELSE "attribute"

\* how many parentId links lie between the k-th node and a node without parent;
\* a parent is looked up among the nodes before k
RECURSIVE DepthOf(_, _)
DepthOf(ns, k) ==
    IF ns[k].parentId = None THEN 0
    ELSE LET before == {i \in 1..(k - 1) : ns[i].id = Val(ns[k].parentId)}
         IN  IF before = {} THEN -1
             ELSE 1 + DepthOf(ns, CHOOSE i \in before : TRUE)

\* document order of an attribute list: each attribute, then its sub-attributes
RECURSIVE AttributeOrder(_, _)
AttributeOrder(attrs, depth) ==
    IF attrs = <<>> THEN <<>>
    ELSE <<[label |-> Head(attrs).name, kind |-> "attribute", depth |-> depth]>>
         \o AttributeOrder(IF IsSome(Head(attrs).subAttributes)
                           THEN Val(Head(attrs).subAttributes) ELSE <<>>, depth + 1)
         \o AttributeOrder(Tail(attrs), depth)

\* document order of the entities (label: name) or relationships (label: verb)
RECURSIVE OwnerOrder(_, _)
OwnerOrder(owners, kind) ==
    IF owners = <<>> THEN <<>>
    ELSE <<[label |-> IF kind = "entity" THEN Head(owners).name ELSE Head(owners).verb,
            kind |-> kind, depth |-> 0]>>
         \o AttributeOrder(Head(owners).attributes, 1)
         \o OwnerOrder(Tail(owners), kind)

DocumentOrder(a) == OwnerOrder(a.entities, "entity") \o OwnerOrder(a.relationships, "relationship")

\* C13: the node ids of a model are pairwise distinct and follow document
\* order: the k-th node pushed has id node_k, and each entity or relationship is
\* immediately followed by its attributes, a composite by its sub-attributes.
C13_NodeIdsInDocumentOrder ==
    (phase = "ast" /\ IsSome(model)) =>
        LET ns == Val(model).nodes
        IN  /\ \A k \in 1..Len(ns) : ns[k].id = NodeId(k)
            /\ \A i, j \in 1..Len(ns) : i # j => ns[i].id # ns[j].id
            /\ [k \in 1..Len(ns) |->
                   [label |-> ns[k].label, kind |-> NodeKind(ns[k]), depth |-> DepthOf(ns, k)]]
               = DocumentOrder(Val(ast))

\* C13 witness: a model of two entities and a relationship in which a composite
\* is followed by its sub-attribute and then by a sibling, and the relationship
\* by an attribute of its own
C13_Witness ==
    /\ phase = "ast"
    /\ IsSome(model)
    /\ \E k \in 1..(Len(Val(model).nodes) - 2) :
           LET ns == Val(model).nodes
           IN  /\ ns[k].type = "compositeAttribute"
               /\ ns[k + 1].parentId = Some(ns[k].id)
               /\ ns[k + 2].parentId = ns[k].parentId
    /\ \E k \in 1..(Len(Val(model).nodes) - 1) :
           LET ns == Val(model).nodes
           IN  /\ IsRelationshipNode(ns[k])
               /\ ns[k + 1].parentId = Some(ns[k].id)
    /\ CountNodes(Val(model).nodes, EntityTypes) = 2

\* the containment edges of es that end at the node `id`
ContainmentEdgesInto(es, id) ==
    {j \in 1..Len(es) : IsContainmentEdge(es[j]) /\ es[j].targetId = id}

\* follow containment edges upward from `id`: TRUE when an entity or a
\* relationship is reached, FALSE when a node comes up twice or the path ends
RECURSIVE ReachesOwner(_, _, _, _)
ReachesOwner(ns, es, id, seen) ==
    IF id \in seen THEN FALSE
    ELSE IF \E i \in 1..Len(ns) : ns[i].id = id /\ ~IsAttributeNode(ns[i])
    THEN \E i \in 1..Len(ns) :
             ns[i].id = id /\ (IsEntityNode(ns[i]) \/ IsRelationshipNode(ns[i]))
    ELSE IF ContainmentEdgesInto(es, id) = {} THEN FALSE
    ELSE \A j \in ContainmentEdgesInto(es, id) :
             ReachesOwner(ns, es, es[j].sourceId, seen \cup {id})

\* C14: in a model astToDiagramModel returned the containment edges form a
\* forest: every attribute node is the target of exactly one containment edge,
\* that edge's source is the node's parentId, and following containment edges
\* upward from it reaches an entity or relationship without revisiting a node.
C14_ContainmentForest ==
    (phase = "ast" /\ IsSome(model)) =>
        LET ns == Val(model).nodes
            es == Val(model).edges
        IN  \A i \in 1..Len(ns) :
                IsAttributeNode(ns[i]) =>
                    /\ Cardinality(ContainmentEdgesInto(es, ns[i].id)) = 1
                    /\ \A j \in ContainmentEdgesInto(es, ns[i].id) :
                           Some(es[j].sourceId) = ns[i].parentId
                    /\ ReachesOwner(ns, es, ns[i].id, {})

\* C14 witness: a chain of three containment edges from an entity down to a
\* sub-attribute of a sub-attribute
C14_Witness ==
    /\ phase = "ast"
    /\ IsSome(model)
    /\ \E j1, j2, j3 \in 1..Len(Val(model).edges) :
           LET es == Val(model).edges
               ns == Val(model).nodes
           IN  /\ IsContainmentEdge(es[j1]) /\ IsContainmentEdge(es[j2])
               /\ IsContainmentEdge(es[j3])
               /\ es[j1].targetId = es[j2].sourceId
               /\ es[j2].targetId = es[j3].sourceId
               /\ \E i \in 1..Len(ns) : ns[i].id = es[j1].sourceId /\ IsEntityNode(ns[i])

----------------------------------------------------------------------------
(* The AST diagramModelToAST returns *)

\* diagramModelToAST has been called on the edited model
Exported == phase = "exported"

\* edge e touches the node `id`
Incident(e, id) == e.sourceId = id \/ e.targetId = id

\* the relationship of the exported AST that stems from the i-th node: the
\* relationships are pushed in node order
RelationshipOfNode(ns, i) ==
    Val(exported.ast).relationships[Len(SelectSeq(SubSeq(ns, 1, i), IsRelationshipNode))]

\* C15: diagramModelToAST treats an edge as relational whenever any of
\* sourceCardinality, targetCardinality, sourceParticipation and
\* targetParticipation is set (an edge with only a participation included),
\* and as containment only when none of the four is set.
C15_RelationalWhenAnyFieldSet ==
    Exported =>
        LET ns == Val(model).nodes
            es == Val(model).edges
        IN  /\ \A i \in 1..Len(ns) :
                   IsRelationshipNode(ns[i]) =>
                       RelEdges(Val(model), ns[i].id)
                           = SelectSeq(es, LAMBDA e : /\ Incident(e, ns[i].id)
                                                      /\ HasCardinality_OrParticipation(e))
            /\ \A i \in 1..Len(ns) :
                   Len(ChildrenOf(ns, es, ns[i].id))
                       = Cardinality({j \in 1..Len(es) :
                                         /\ ~HasCardinality_OrParticipation(es[j])
                                         /\ es[j].sourceId = ns[i].id
                                         /\ NodeMapHas(ns, es[j].targetId)})

\* the relational edges at the node `id` whose far end is the source (left
\* side) or the target (right side) and is a node of the model
LeftEdgesAt(m, id) ==
    SelectSeq(RelEdges(m, id),
              LAMBDA e : e.sourceId # id /\ NodeMapHas(m.nodes, e.sourceId))
RightEdgesAt(m, id) ==
    SelectSeq(RelEdges(m, id),
              LAMBDA e : e.sourceId = id /\ e.targetId # id /\ NodeMapHas(m.nodes, e.targetId))

\* the defaults the claim names, for a side no edge supplies
ClaimedDefault == Side(<<>>, "1", "partial")

\* C16: in the AST diagramModelToAST returns, a relationship side (left and
\* right alike) that no relational edge supplies has entity name '',
\* cardinality '1' and participation 'partial'; a side supplied by an edge
\* without cardinality gets '1', without participation 'partial'.
C16_ReverseDefaults ==
    (Exported /\ exported.kind = "ast") =>
        \A i \in 1..Len(Val(model).nodes) :
            IsRelationshipNode(Val(model).nodes[i]) =>
                LET m == Val(model)
                    id == m.nodes[i].id
                    rel == RelationshipOfNode(m.nodes, i)
                    lefts == LeftEdgesAt(m, id)
                    rights == RightEdgesAt(m, id)
                IN  /\ lefts = <<>> => rel.leftSide = ClaimedDefault
                    /\ rights = <<>> => rel.rightSide = ClaimedDefault
                    /\ lefts # <<>> =>
                           /\ rel.leftSide.cardinality
                                  = OrElse(lefts[Len(lefts)].sourceCardinality, "1")
                           /\ rel.leftSide.participation
                                  = OrElse(lefts[Len(lefts)].sourceParticipation, "partial")
                    /\ rights # <<>> =>
                           /\ rel.rightSide.cardinality
                                  = OrElse(rights[Len(rights)].targetCardinality, "1")
                           /\ rel.rightSide.participation
                                  = OrElse(rights[Len(rights)].targetParticipation, "partial")

\* C17: diagramModelToAST is total on edited graphs (edges that name missing
\* nodes, no or more than two relational edges at a relationship, containment
\* cycles among composites): it returns an AST and raises nothing.
C17_ReverseTotal ==
    Exported => exported.kind = "ast"

\* every identifying relationship of the AST a has participation 'total' on
\* both sides
IdentifyingIsTotal(a) ==
    \A k \in 1..Len(a.relationships) :
        a.relationships[k].relationshipType = "identifying" =>
            /\ a.relationships[k].leftSide.participation = "total"
            /\ a.relationships[k].rightSide.participation = "total"

\* C18: every identifying relationship in an AST that parseDSL produced, or
\* that diagramModelToAST produced from any graph, has participation 'total' on
\* both sides.
C18_IdentifyingTotal ==
    /\ (phase = "returned" => IdentifyingIsTotal(Val(result.ast)))
    /\ ((Exported /\ exported.kind = "ast") => IdentifyingIsTotal(Val(exported.ast)))

----------------------------------------------------------------------------
(* The attributes of a parsed AST *)

\* the attributes of a list, sub-attributes included
RECURSIVE AllAttributes(_)
AllAttributes(attrs) ==
    IF attrs = <<>> THEN {}
    ELSE {Head(attrs)}
         \cup (IF IsSome(Head(attrs).subAttributes)
               THEN AllAttributes(Val(Head(attrs).subAttributes)) ELSE {})
         \cup AllAttributes(Tail(attrs))

\* the attributes of every entity or relationship of a list
RECURSIVE OwnedAttributes(_)
OwnedAttributes(owners) ==
    IF owners = <<>> THEN {}
    ELSE AllAttributes(Head(owners).attributes) \cup OwnedAttributes(Tail(owners))

\* C19: in every AST parseDSL produced, an attribute carries an fkTarget if
\* and only if its keyType is fk.
C19_FkTargetIffFk ==
    phase = "returned" =>
        \A attr \in OwnedAttributes(Val(result.ast).entities)
                    \cup OwnedAttributes(Val(result.ast).relationships) :
            IsSome(attr.fkTarget) <=> attr.keyType = "fk"

----------------------------------------------------------------------------
(* The Map calculateLayout returns *)

\* C20: calculateLayout is a function of its arguments only: calls on the same
\* nodes and edges return identical coordinates, the x and y the nodes already
\* carry make no difference, and a call leaves its arguments as they were.
C20_LayoutIsPure ==
    phase = "layout" =>
        /\ \A i, j \in 1..Len(positions) :
               (/\ Unplaced(positions[i].nodes) = Unplaced(positions[j].nodes)
                /\ positions[i].edges = positions[j].edges)
                   => positions[i].map = positions[j].map
        /\ \A i \in 1..Len(positions) :
               positions[i].left = [nodes |-> positions[i].nodes, edges |-> positions[i].edges]

\* C20 witness: two calls on the same graph, the second after an entity was
\* dragged away from its column, both placing a relationship between two
\* entities and a sub-attribute
C20_Witness ==
    /\ phase = "layout"
    /\ Len(positions) = 2
    /\ positions[1].nodes # positions[2].nodes
    /\ \E i \in 1..Len(positions[2].nodes) :
           LET n == positions[2].nodes[i]
           IN  /\ IsEntityNode(n)
               /\ IsSome(n.x)
               /\ n.x # Some(PosGet(positions[2].map, n.id).x)
    /\ \E i \in 1..Len(positions[2].nodes) :
           LET n == positions[2].nodes[i]
           IN  /\ IsRelationshipNode(n)
               /\ PosGet(positions[2].map, n.id).x = Q(200, 1)
    /\ \E i, k \in 1..Len(positions[2].nodes) :
           LET n == positions[2].nodes[i]
               parent == positions[2].nodes[k]
           IN  /\ IsAttributeNode(n) /\ IsAttributeNode(parent)
               /\ n.parentId = Some(parent.id)
               /\ PosHas(positions[2].map, n.id)

\* the entities, relationships and attributes the r-th call was given
EntitiesOfRun(r) == SelectSeq(positions[r].nodes, IsEntityNode)
RelationshipsOfRun(r) == SelectSeq(positions[r].nodes, IsRelationshipNode)
AttributesOfRun(r) == SelectSeq(positions[r].nodes, IsAttributeNode)

\* C21: calculateLayout places the i-th entity (0-based, in node-list order) at
\* x = 100 + 200 * i on the row y = 250: the entity x coordinates increase
\* strictly by a fixed step and no two entities share a position.
C21_EntityRow ==
    phase = "layout" =>
        \A r \in 1..Len(positions) :
            LET es == EntitiesOfRun(r)
                map == positions[r].map
            IN  /\ \A i \in 1..Len(es) :
                       /\ PosHas(map, es[i].id)
                       /\ PosGet(map, es[i].id).x = Q(100 + HORIZONTAL_SPACING * (i - 1), 1)
                       /\ PosGet(map, es[i].id).y = 250
                /\ \A i, j \in 1..Len(es) :
                       i < j => /\ PosGet(map, es[i].id).x.n < PosGet(map, es[j].id).x.n
                                /\ PosGet(map, es[i].id) # PosGet(map, es[j].id)

\* C21 witness: a call that was given two entities
C21_Witness ==
    /\ phase = "layout"
    /\ \E r \in 1..Len(positions) : Len(EntitiesOfRun(r)) = 2

\* the column of the entity `id` among the entities es, counted from 0, or -1
\* when es holds no such entity
EntityColumn(es, id) ==
    IF \E i \in 1..Len(es) : es[i].id = id
    THEN (CHOOSE i \in 1..Len(es) : es[i].id = id) - 1
    ELSE -1

\* over the relational edges at the relationship `id`: the sum of the x of the
\* entities at their far ends, one term per edge, and the number of terms
RECURSIVE ConnectedEntities(_, _, _)
ConnectedEntities(edges, id, es) ==
    IF edges = <<>> THEN [sum |-> 0, count |-> 0]
    ELSE LET e == Head(edges)
             rest == ConnectedEntities(Tail(edges), id, es)
             column == EntityColumn(es, IF e.sourceId = id THEN e.targetId ELSE e.sourceId)
         IN  IF HasCardinality(e) /\ Incident(e, id) /\ column >= 0
             THEN [sum |-> rest.sum + 100 + HORIZONTAL_SPACING * column,
                   count |-> rest.count + 1]
             ELSE rest

\* C25: calculateLayout sets each relationship's x to the arithmetic mean of
\* the x of the entities connected to it by relational edges, one term per
\* edge, and to 400 when no connected entity is positioned; its y is 400.
C25_RelationshipAtMean ==
    phase = "layout" =>
        \A r \in 1..Len(positions) :
            \A i \in 1..Len(RelationshipsOfRun(r)) :
                LET id == RelationshipsOfRun(r)[i].id
                    pos == PosGet(positions[r].map, id)
                    conn == ConnectedEntities(positions[r].edges, id, EntitiesOfRun(r))
                IN  /\ PosHas(positions[r].map, id)
                    /\ pos.y = 400
                    /\ conn.count = 0 => pos.x = Q(400, 1)
                    /\ conn.count > 0 => pos.x = Q(conn.sum, conn.count)

\* C25 witness: a call that placed one relationship midway between two
\* different entities and another on the entity both its edges lead to
C25_Witness ==
    /\ phase = "layout"
    /\ \E r \in 1..Len(positions) :
           \E i, j \in 1..Len(RelationshipsOfRun(r)) :
               LET es == EntitiesOfRun(r)
                   c1 == ConnectedEntities(positions[r].edges, RelationshipsOfRun(r)[i].id, es)
                   c2 == ConnectedEntities(positions[r].edges, RelationshipsOfRun(r)[j].id, es)
               IN  /\ c1.count = 2 /\ c1.sum = 600
                   /\ PosGet(positions[r].map, RelationshipsOfRun(r)[i].id).x = Q(300, 1)
                   /\ c2.count = 2 /\ c2.sum = 600 /\ i # j

\* the nodes of ns whose parentId is `id`, in node order
OwnedBy(ns, id) == SelectSeq(ns, LAMBDA n : IsAttributeNode(n) /\ n.parentId = Some(id))

\* the sum of the x the Map gives the nodes of ns
RECURSIVE SumX(_, _)
SumX(ns, map) ==
    IF ns = <<>> THEN Q(0, 1) ELSE QPlus(PosGet(map, Head(ns).id).x, SumX(Tail(ns), map))

\* C24: calculateLayout places every attribute directly owned by an entity at
\* y = owner.y - 100 and every attribute directly owned by a relationship at
\* y = owner.y + 100; the siblings of one owner are 50 apart in node order and
\* the mean of their x equals the owner's x.
C24_AttributeStacking ==
    phase = "layout" =>
        \A r \in 1..Len(positions) :
            \A o \in 1..Len(positions[r].nodes) :
                LET owner == positions[r].nodes[o]
                    map == positions[r].map
                    attrs == OwnedBy(positions[r].nodes, owner.id)
                IN  (~IsAttributeNode(owner) /\ attrs # <<>>) =>
                        /\ \A k \in 1..Len(attrs) :
                               /\ PosHas(map, attrs[k].id)
                               /\ PosGet(map, attrs[k].id).y
                                      = IF IsEntityNode(owner)
                                        THEN PosGet(map, owner.id).y - 100
                                        ELSE PosGet(map, owner.id).y + 100
                        /\ \A k \in 1..(Len(attrs) - 1) :
                               PosGet(map, attrs[k + 1].id).x
                                   = QShift(PosGet(map, attrs[k].id).x, 50)
                        /\ SumX(attrs, map)
                               = Q(PosGet(map, owner.id).x.n * Len(attrs),
                                   PosGet(map, owner.id).x.d)

\* C24 witness: a call that stacked two attributes above an entity and two
\* below a relationship
C24_Witness ==
    /\ phase = "layout"
    /\ \E r \in 1..Len(positions) :
           \E o1, o2 \in 1..Len(positions[r].nodes) :
               /\ IsEntityNode(positions[r].nodes[o1])
               /\ Len(OwnedBy(positions[r].nodes, positions[r].nodes[o1].id)) = 2
               /\ IsRelationshipNode(positions[r].nodes[o2])
               /\ Len(OwnedBy(positions[r].nodes, positions[r].nodes[o2].id)) = 2

\* C23: in the coordinates calculateLayout returns, the sub-attributes of a
\* composite lie one band further from the owning entity or relationship than
\* the composite itself (above the composite and off the entity row when an
\* entity owns it, below it when a relationship does), centred as a group on
\* the composite's x.
C23_SubAttributeBand ==
    phase = "layout" =>
        \A r \in 1..Len(positions) :
            \A o, c \in 1..Len(positions[r].nodes) :
                LET owner == positions[r].nodes[o]
                    composite == positions[r].nodes[c]
                    map == positions[r].map
                    subs == OwnedBy(positions[r].nodes, composite.id)
                IN  (/\ ~IsAttributeNode(owner)
                     /\ IsAttributeNode(composite)
                     /\ composite.parentId = Some(owner.id)
                     /\ subs # <<>>) =>
                        /\ \A k \in 1..Len(subs) :
                               /\ PosHas(map, subs[k].id)
                               /\ IF IsEntityNode(owner)
                                  THEN /\ PosGet(map, subs[k].id).y < PosGet(map, composite.id).y
                                       /\ PosGet(map, subs[k].id).y # PosGet(map, owner.id).y
                                  ELSE PosGet(map, subs[k].id).y > PosGet(map, composite.id).y
                        /\ SumX(subs, map)
                               = Q(PosGet(map, composite.id).x.n * Len(subs),
                                   PosGet(map, composite.id).x.d)

----------------------------------------------------------------------------
(* The editor page and its canvas  (erd-editor.tsx, mxgraph-editor.ts and  *)
(* the editor with the shape palette)                                      *)

MaxParses == 2       \* most handleParseAndGenerate calls in one behaviour of the editor specification

\* a cell of the graph: a vertex with its nodeData and geometry, or an edge
\* with its edgeData and the ids of its terminals
Vertex(node, geo) ==
    [isVertex |-> TRUE, data |-> node, geo |-> Some(geo), source |-> None, target |-> None]
EdgeCell(edge, sourceId, targetId) ==
    [isVertex |-> FALSE, data |-> edge, geo |-> None,
     source |-> Some(sourceId), target |-> Some(targetId)]

\* cellMap.get(id) is defined
HasVertex(cs, id) == \E i \in 1..Len(cs) : cs[i].isVertex /\ cs[i].data.id = id

\* renderDiagram lines 309-322 (and 327-340, 349-376): the vertex of a node,
\* where the layout put it or at the loop's fallback
RenderedVertex(nodePositions, node, fallback) ==
    IF PosHas(nodePositions, node.id)
    THEN Vertex(node, [x |-> PosGet(nodePositions, node.id).x,
                       y |-> PosGet(nodePositions, node.id).y])
    ELSE Vertex(node, fallback)

RenderedVertices(nodePositions, ns, fallback) ==
    [i \in 1..Len(ns) |-> RenderedVertex(nodePositions, ns[i], fallback)]

\* renderDiagram lines 379-404: an edge cell for every edge whose two ends
\* have a cell
RenderedEdges(vertices, es) ==
    LET drawn == SelectSeq(es, LAMBDA e : HasVertex(vertices, e.sourceId)
                                          /\ HasVertex(vertices, e.targetId))
    IN  [i \in 1..Len(drawn) |-> EdgeCell(drawn[i], drawn[i].sourceId, drawn[i].targetId)]

\* renderDiagram lines 299-404: the cells of the graph after the old ones
\* were removed
renderDiagram(m) ==
    LET entityNodes == SelectSeq(m.nodes, IsEntityNode)
        relationshipNodes == SelectSeq(m.nodes, IsRelationshipNode)
        attributeNodes == SelectSeq(m.nodes, IsAttributeNode)
        nodePositions == calculateLayout(entityNodes, relationshipNodes, attributeNodes, m.edges)
        vertices == RenderedVertices(nodePositions, entityNodes, [x |-> Q(100, 1), y |-> 100])
                    \o RenderedVertices(nodePositions, relationshipNodes, [x |-> Q(200, 1), y |-> 200])
                    \o RenderedVertices(nodePositions, attributeNodes, [x |-> Q(300, 1), y |-> 300])
    IN  vertices \o RenderedEdges(vertices, m.edges)

\* extractModelFromGraph (the editor with the palette, lines 513-526 and
\* 551-557): the node or edge the function makes of a cell that has its data
UpdatedNode(cell) == Located(cell.data, Some(Val(cell.geo).x), Some(Val(cell.geo).y))
UpdatedEdge(cell) ==
    [cell.data EXCEPT !.sourceId = Val(cell.source), !.targetId = Val(cell.target)]

\* extractModelFromGraph: the model returned
extractModelFromGraph(cs) ==
    LET vertexCells == SelectSeq(cs, LAMBDA c : c.isVertex)
        edgeCells == SelectSeq(cs, LAMBDA c : ~c.isVertex /\ IsSome(c.source) /\ IsSome(c.target))
    IN  [nodes |-> [i \in 1..Len(vertexCells) |-> UpdatedNode(vertexCells[i])],
         edges |-> [i \in 1..Len(edgeCells) |-> UpdatedEdge(edgeCells[i])]]

\* extractModelFromGraph lines 526 and 556: the cells, each holding the node
\* or edge the function made of it
Extracted(cs) ==
    [i \in 1..Len(cs) |->
        IF cs[i].isVertex THEN [cs[i] EXCEPT !.data = UpdatedNode(cs[i])]
        ELSE [cs[i] EXCEPT !.data = UpdatedEdge(cs[i])]]

\* generateShapeId line 662 and addConnection line 814
ShapeId(n) == <<"shape", n>>
ConnectionId(n) == <<"edge", n>>

\* the React state of the page and the ref, as one record
Page == [currentAST |-> currentAST, currentModel |-> currentModel,
         parseError |-> parseError, isUpdatingFromDSL |-> isUpdatingFromDSL]

\* handleParseAndGenerate lines 107-108
Started(page) == [page EXCEPT !.parseError = None, !.isUpdatingFromDSL = TRUE]

\* a catch block that also forgets the diagram
Caught_Forgetful(page, message) ==
    [page EXCEPT !.parseError = Some(message), !.isUpdatingFromDSL = FALSE,
                 !.currentAST = None, !.currentModel = None]

\* handleParseAndGenerate lines 129-132: the catch block
Caught(page, message) ==
    [page EXCEPT !.parseError = Some(message), !.isUpdatingFromDSL = FALSE]

\* handleParseAndGenerate lines 112 and 115
Generated(page, a, m) == [page EXCEPT !.currentAST = Some(a), !.currentModel = Some(m)]

\* the listener of lines 78-81
Listener(page, updatedModel) ==
    IF page.isUpdatingFromDSL THEN page
    ELSE [page EXCEPT !.currentModel = Some(updatedModel)]

\* the CHANGE listener of mxgraph-editor.ts lines 99-104, onModelChange being set
Changed(page, original, cs) ==
    IF IsSome(original) THEN Listener(page, extractModelFromGraph(cs)) ELSE page

\* the cells after the CHANGE listener ran
ChangedCells(original, cs) == IF IsSome(original) THEN Extracted(cs) ELSE cs

SetPage(page) ==
    /\ currentAST' = page.currentAST
    /\ currentModel' = page.currentModel
    /\ parseError' = page.parseError
    /\ isUpdatingFromDSL' = page.isUpdatingFromDSL

\* the texts in the DSL pane when Generate is pressed
EditorTexts ==
    { sEntity \o sp \o nA \o <<":">> \o nl \o Line(<<nX>>),
      sEntity \o sp \o nA \o <<":">> \o nl \o RelationHeader(sRelation, sOne, sM),
      sEntity \o sp \o nA \o <<":">> \o nl \o RelationHeader(sRelation, nX, sM) }

EditorInit ==
    /\ input = <<>>
    /\ lexer = NewTokenizer
    /\ NoParse
    /\ phase = "editor"
    /\ pass = 1
    /\ ast = None
    /\ NoGraph

\* handleParseAndGenerate, the try block to its end: lines 111-123, with
\* renderDiagram and the CHANGE event its endUpdate fires
ParseSucceeds(a) ==
    \E g \in {astToDiagramModel(a, [nodeIdCounter |-> nodeIdCounter,
                                     edgeIdCounter |-> edgeIdCounter])} :
        \E m \in {[nodes |-> Unplaced(g.nodes), edges |-> g.edges]} :
            /\ cells' = ChangedCells(Some(m), renderDiagram(m))
            /\ SetPage(Changed(Generated(Started(Page), a, m), Some(m), renderDiagram(m)))
            /\ originalModel' = Some(m)
            /\ sameObject' = TRUE
            /\ timers' = timers + 1
            /\ nodeIdCounter' = g.nodeIdCounter
            /\ edgeIdCounter' = g.edgeIdCounter

\* handleParseAndGenerate when parseDSL throws: lines 107-111 and 129-132
ParseFails(message) ==
    /\ SetPage(Caught(Started(Page), message))
    /\ UNCHANGED <<timers, cells, originalModel, sameObject, counterVars>>

\* handleParseAndGenerate (erd-editor.tsx 105-141) on the text of the DSL pane
HandleParseAndGenerate ==
    /\ phase = "editor"
    /\ parses < MaxParses
    /\ \E text \in EditorTexts :
           /\ input' = text
           /\ IF parseDSL(text).kind = "ast"
              THEN ParseSucceeds(Val(parseDSL(text).ast))
              ELSE ParseFails(Val(parseDSL(text).error))
    /\ parses' = parses + 1
    /\ UNCHANGED <<lexer, parseVars, phase, pass, ast, model, issued, exported, positions,
                   edits, shapeIdCounter>>

\* the callback of lines 121-123 runs
TimerFires ==
    /\ phase = "editor"
    /\ timers > 0
    /\ timers' = timers - 1
    /\ isUpdatingFromDSL' = FALSE
    /\ UNCHANGED <<lexVars, parseVars, phase, pass, ast, model, counterVars, issued, exported,
                   positions, edits, currentAST, currentModel, parseError, parses, canvasVars>>

\* the user drags a vertex: the graph model fires CHANGE
MoveCell ==
    /\ phase = "editor"
    /\ edits < MaxEdits
    /\ \E i \in 1..Len(cells) :
           /\ cells[i].isVertex
           /\ cells[i].geo # Some(Drop)
           /\ \E moved \in {[cells EXCEPT ![i].geo = Some(Drop)]} :
                  /\ cells' = ChangedCells(originalModel, moved)
                  /\ SetPage(Changed(Page, originalModel, moved))
    /\ sameObject' = (sameObject /\ (isUpdatingFromDSL \/ ~IsSome(originalModel)))
    /\ edits' = edits + 1
    /\ UNCHANGED <<lexVars, parseVars, phase, pass, ast, model, counterVars, issued, exported,
                   positions, timers, parses, originalModel, shapeIdCounter>>

\* addShape / addConnection lines 789-792 and 833-836: the model the data is
\* pushed to
OriginalOrEmpty(original) == IF IsSome(original) THEN Val(original) ELSE [nodes |-> <<>>, edges |-> <<>>]
PushedNode(m, nodeData) == [m EXCEPT !.nodes = Append(@, nodeData)]
PushedEdge(m, edgeData) == [m EXCEPT !.edges = Append(@, edgeData)]

\* the page after something was pushed to editor.originalModel: currentModel
\* shows it when it is that object
Shared(page, original) ==
    IF sameObject /\ IsSome(originalModel) THEN [page EXCEPT !.currentModel = Some(original)]
    ELSE page

\* the end of addShape and addConnection: the pushed model, the direct call of
\* onModelChange, then the CHANGE event of endUpdate
Notified(original, cs) ==
    /\ originalModel' = Some(original)
    /\ cells' = Extracted(cs)
    /\ SetPage(Listener(Shared(Page, original), extractModelFromGraph(cs)))
    /\ sameObject' = (sameObject /\ IsSome(originalModel) /\ isUpdatingFromDSL)

\* what the palette offers
ShapeTypes == {"entity", "simpleAttribute"}

\* addShape lines 764-779
ShapeData(nodeId, type) ==
    Located(DiagramNode(nodeId, type, nX, Some(nX), None, Some(FALSE), Some(FALSE), None, None,
                        None, IF type = "entity" THEN Some("strong") ELSE None, None),
            Some(Drop.x), Some(Drop.y))

\* addShape (lines 676-800)
AddShape ==
    /\ phase = "editor"
    /\ edits < MaxEdits
    /\ shapeIdCounter' = shapeIdCounter + 1
    /\ \E type \in ShapeTypes :
           \E nodeData \in {ShapeData(ShapeId(shapeIdCounter + 1), type)} :
               Notified(PushedNode(OriginalOrEmpty(originalModel), nodeData),
                        Append(cells, Vertex(nodeData, Drop)))
    /\ edits' = edits + 1
    /\ UNCHANGED <<lexVars, parseVars, phase, pass, ast, model, counterVars, issued, exported,
                   positions, timers, parses>>

\* addConnection (lines 804-846) from a vertex of the canvas to a later one
AddConnection ==
    /\ phase = "editor"
    /\ edits < MaxEdits
    /\ shapeIdCounter' = shapeIdCounter + 1
    /\ \E i, j \in 1..Len(cells) :
           /\ i < j
           /\ cells[i].isVertex
           /\ cells[j].isVertex
           /\ \E edgeData \in {DiagramEdge(ConnectionId(shapeIdCounter + 1), cells[i].data.id,
                                           cells[j].data.id, None, None, None, None)} :
                  Notified(PushedEdge(OriginalOrEmpty(originalModel), edgeData),
                           Append(cells, EdgeCell(edgeData, cells[i].data.id, cells[j].data.id)))
    /\ edits' = edits + 1
    /\ UNCHANGED <<lexVars, parseVars, phase, pass, ast, model, counterVars, issued, exported,
                   positions, timers, parses>>

\* clearCanvas (lines 892-905): the CHANGE event of endUpdate finds
\* originalModel null
ClearCanvas ==
    /\ phase = "editor"
    /\ cells # <<>>
    /\ cells' = <<>>
    /\ originalModel' = None
    /\ sameObject' = FALSE
    /\ UNCHANGED <<lexVars, parseVars, phase, pass, ast, model, counterVars, issued, exported,
                   positions, edits, pageVars, shapeIdCounter>>

EditorNext ==
    HandleParseAndGenerate \/ TimerFires \/ MoveCell \/ AddShape \/ AddConnection \/ ClearCanvas

SpecEditor == EditorInit /\ [][EditorNext]_vars

----------------------------------------------------------------------------
(* Properties of the editor page *)

\* C22: when parseDSL raises inside handleParseAndGenerate, currentAST,
\* currentModel and the cells of the canvas keep the values they had before
\* the call; parseError becomes the error's message and isUpdatingFromDSL
\* becomes false.
C22_FailedParseKeepsState ==
    [][(parses' # parses /\ parseDSL(input').kind = "error") =>
           /\ currentAST' = currentAST
           /\ currentModel' = currentModel
           /\ cells' = cells
           /\ parseError' = parseDSL(input').error
           /\ isUpdatingFromDSL' = FALSE]_vars

\* a parse failed while a diagram was on the canvas and the timer of the
\* parse that drew it was still pending
C22_Witness ==
    /\ phase = "editor"
    /\ IsSome(parseError)
    /\ IsSome(currentAST)
    /\ IsSome(currentModel)
    /\ cells # <<>>
    /\ timers > 0
    /\ ~isUpdatingFromDSL

Distinct(ids) == \A i, j \in 1..Len(ids) : ids[i] = ids[j] => i = j

\* C27: whatever renderDiagram, addShape, addConnection and clearCanvas did to
\* the canvas, the model extractModelFromGraph returns has pairwise distinct
\* node ids and pairwise distinct edge ids.
C27_LiveIdsDistinct ==
    phase = "editor" =>
        /\ Distinct(IdsOf(extractModelFromGraph(cells).nodes))
        /\ Distinct(IdsOf(extractModelFromGraph(cells).edges))

\* C30: every change the user makes to the canvas once handleParseAndGenerate
\* has returned sets currentModel to the model extracted from the canvas.
C30_NoEditLost ==
    [][edits' # edits => currentModel' = Some(extractModelFromGraph(cells'))]_vars

----------------------------------------------------------------------------
(* The graph round trip: parseDSL(D), astToDiagramModel, diagramModelToAST *)

\* sampleDSL (dsl-parser.ts 570-605), character by character
sampleDSL ==
    << "E", "n", "t", "i", "t", "y", " ", "S", "t", "o", "r", "e", ":", "NL",
       " ", " ", "s", "t", "o", "r", "e", "_", "i", "d", " ", "P", "K", "NL",
       " ", " ", "n", "a", "m", "e", "NL",
       " ", " ", "a", "d", "d", "r", "e", "s", "s", " ", "C", "o", "m", "p", "o", "s", "i", "t", "e", ":", "NL",
       " ", " ", " ", " ", "s", "t", "r", "e", "e", "t", "NL",
       " ", " ", " ", " ", "c", "i", "t", "y", "NL",
       " ", " ", " ", " ", "z", "i", "p", "NL",
       " ", " ", "p", "h", "o", "n", "e", "s", " ", "M", "u", "l", "t", "i", "v", "a", "l", "u", "e", "d", "NL",
       "NL",
       "E", "n", "t", "i", "t", "y", " ", "P", "r", "o", "d", "u", "c", "t", ":", "NL",
       " ", " ", "p", "r", "o", "d", "u", "c", "t", "_", "i", "d", " ", "P", "K", "NL",
       " ", " ", "n", "a", "m", "e", "NL",
       " ", " ", "p", "r", "i", "c", "e", "NL",
       "NL",
       "W", "e", "a", "k", " ", "E", "n", "t", "i", "t", "y", " ", "O", "r", "d", "e", "r", "I", "t", "e", "m", ":", "NL",
       " ", " ", "q", "u", "a", "n", "t", "i", "t", "y", "NL",
       " ", " ", "p", "r", "i", "c", "e", "NL",
       " ", " ", "I", "d", "e", "n", "t", "i", "f", "i", "e", "d", " ", "B", "y", " ", "O", "r", "d", "e", "r", ".", "o", "r", "d", "e", "r", "_", "i", "d", " ", "+", " ", "P", "r", "o", "d", "u", "c", "t", ".", "p", "r", "o", "d", "u", "c", "t", "_", "i", "d", "NL",
       "NL",
       "E", "n", "t", "i", "t", "y", " ", "O", "r", "d", "e", "r", ":", "NL",
       " ", " ", "o", "r", "d", "e", "r", "_", "i", "d", " ", "P", "K", "NL",
       " ", " ", "o", "r", "d", "e", "r", "_", "d", "a", "t", "e", "NL",
       " ", " ", "t", "o", "t", "a", "l", " ", "D", "e", "r", "i", "v", "e", "d", "NL",
       "NL",
       "E", "n", "t", "i", "t", "y", " ", "S", "u", "p", "p", "l", "i", "e", "r", ":", "NL",
       " ", " ", "s", "u", "p", "p", "l", "i", "e", "r", "_", "i", "d", " ", "P", "K", "NL",
       " ", " ", "n", "a", "m", "e", "NL",
       " ", " ", "c", "o", "n", "t", "a", "c", "t", "_", "e", "m", "a", "i", "l", "NL",
       "NL",
       "R", "e", "l", "a", "t", "i", "o", "n", " ", "S", "t", "o", "r", "e", " ", "(", "1", ")", " ", "EMDASH", " ", "(", "M", ")", " ", "P", "r", "o", "d", "u", "c", "t", ":", " ", "s", "e", "l", "l", "s", "NL",
       "NL",
       "I", "d", "e", "n", "t", "i", "f", "y", "i", "n", "g", " ", "R", "e", "l", "a", "t", "i", "o", "n", " ", "O", "r", "d", "e", "r", " ", "(", "1", ")", " ", "EMDASH", " ", "(", "M", ")", " ", "O", "r", "d", "e", "r", "I", "t", "e", "m", ":", " ", "c", "o", "n", "t", "a", "i", "n", "s", "NL",
       "NL",
       "R", "e", "l", "a", "t", "i", "o", "n", " ", "P", "r", "o", "d", "u", "c", "t", " ", "(", "M", ",", " ", "p", "a", "r", "t", "i", "a", "l", ")", " ", "EMDASH", " ", "(", "M", ",", " ", "p", "a", "r", "t", "i", "a", "l", ")", " ", "S", "u", "p", "p", "l", "i", "e", "r", ":", " ", "s", "u", "p", "p", "l", "i", "e", "s", "NL",
       " ", " ", "s", "u", "p", "p", "l", "y", "_", "d", "a", "t", "e", "NL",
       " ", " ", "c", "o", "s", "t" >>

\* names of the sample
wOrder == <<"O", "r", "d", "e", "r">>
wOrderId == <<"o", "r", "d", "e", "r", "_", "i", "d">>
wOrderDate == <<"o", "r", "d", "e", "r", "_", "d", "a", "t", "e">>

\* the bundled sample, documents in which a relationship joins two declared
\* entities, and the entity documents
TripDocuments ==
    {sampleDSL} \cup EntityDocuments \cup
    { sEntity \o sp \o nA \o <<":">> \o nl \o Concat(ls)
        \o sEntity \o sp \o nB \o <<":">> \o nl
        \o RelationHeader(kw, c1 \o p1, c2 \o p2) \o post :
        ls \in SeqsUpTo(AttributeLines, 1),
        kw \in { sRelation, sIdentifying \o sp \o sRelation },
        c1 \in { sOne, sM }, p1 \in { <<>>, <<",", " ">> \o sTotal, <<",", " ">> \o sPartial },
        c2 \in { sOne, sM }, p2 \in { <<>>, <<",", " ">> \o sTotal, <<",", " ">> \o sPartial },
        post \in { <<>>, Line(<<nX>>) \o Line(<<nY, sPK>>) } }

TripInit ==
    /\ input \in TripDocuments
    /\ lexer = NewTokenizer
    /\ NoParse
    /\ phase = "trip"
    /\ pass = 1
    /\ ast = None
    /\ NoGraph

\* const ast = parseDSL(dslInput)
TripParse ==
    /\ phase = "trip"
    /\ result = NoResult
    /\ result' = parseDSL(input)
    /\ UNCHANGED <<lexVars, parser, entities, relationships, phase, pass, ast, graphVars>>

\* const model = astToDiagramModel(ast)
TripForward ==
    /\ phase = "trip"
    /\ result.kind = "ast"
    /\ ast = None
    /\ ast' = result.ast
    /\ Transformed(Val(result.ast))
    /\ UNCHANGED <<lexVars, parseVars, phase, pass, exported, positions, edits,
                   pageVars, canvasVars>>

\* diagramModelToAST(model)
TripReverse ==
    /\ phase = "trip"
    /\ IsSome(model)
    /\ exported = NoResult
    /\ exported' = diagramModelToAST(Val(model))
    /\ UNCHANGED <<lexVars, parseVars, phase, pass, ast, model, counterVars, issued,
                   positions, edits, pageVars, canvasVars>>

TripNext == TripParse \/ TripForward \/ TripReverse

SpecTrip == TripInit /\ [][TripNext]_vars

\* every side of every relationship names a declared entity, and no two
\* entities have one name
WellNamed(a) ==
    /\ \A i, j \in 1..Len(a.entities) : a.entities[i].name = a.entities[j].name => i = j
    /\ \A k \in 1..Len(a.relationships) :
           /\ \E i \in 1..Len(a.entities) :
                  a.entities[i].name = a.relationships[k].leftSide.entityName
           /\ \E i \in 1..Len(a.entities) :
                  a.entities[i].name = a.relationships[k].rightSide.entityName

\* C26: for every AST parseDSL returns in which each relationship side names
\* a declared entity and the entity names are distinct,
\* diagramModelToAST(astToDiagramModel(ast)) is equal to the AST, the kind of
\* every attribute included.
C26_GraphRoundTrip ==
    (phase = "trip" /\ exported # NoResult /\ WellNamed(Val(ast))) =>
        exported = Returned(Val(ast))

----------------------------------------------------------------------------
(* Progress of the parser's loops *)

\* the position of EOF, the last token
EndOf(t) == Len(t) - 1

\* what an iteration that began at p may do: throw, or end further on and not
\* beyond EOF
MovesOn(t, p, r) == Threw(r) \/ (r.pos > p /\ r.pos <= EndOf(t))

\* a loop that began at p ends at or after p and not beyond EOF, or throws
EndsWithin(t, p, r) == Threw(r) \/ (r.pos >= p /\ r.pos <= EndOf(t))

\* the body of parseAttributeList's loop at p (lines 243-251): it moves on or
\* breaks at Identified
AttributeListBody(t, p) ==
    IF check(t, p, "IDENTIFIER") THEN MovesOn(t, p, parseAttribute(t, p))
    ELSE check(t, p, "IDENTIFIED") \/ (advance(t, p) > p /\ advance(t, p) <= EndOf(t))

\* the body of parseSubAttributeList's loop at p (lines 304-336): it breaks
\* before a marked attribute or takes the name
SubAttributeListBody(t, p) ==
    SubAttributeBreaks(t, p) \/ MovesOn(t, p, expect(t, p, "IDENTIFIER"))

\* C28: in the loops of parse, parseAttributeList, parseSubAttributeList,
\* parseRelationAttributeList and parseIdentifiedByList every iteration, begun
\* at any token before EOF, consumes at least one token, leaves the loop or
\* raises; no parsing method ends beyond EOF, advance does not move at EOF,
\* and the parser's position is never beyond EOF.
C28_ParserProgress ==
    phase \in {"parse", "threw", "returned"} =>
        /\ parser.tokens[Len(parser.tokens)].type = "EOF"
        /\ parser.pos \in 0..EndOf(parser.tokens)
        /\ advance(parser.tokens, EndOf(parser.tokens)) = EndOf(parser.tokens)
        /\ parser.pos = 0 =>
               \A p \in 0..(EndOf(parser.tokens) - 1) :
                   /\ MovesOn(parser.tokens, p, ParseIteration(parser.tokens, p))
                   /\ ~isEntityOrRelationStart(parser.tokens, p)
                          => AttributeListBody(parser.tokens, p)
                   /\ SubAttributeContinues(parser.tokens, p)
                          => SubAttributeListBody(parser.tokens, p)
                   /\ check(parser.tokens, p, "IDENTIFIER")
                          => MovesOn(parser.tokens, p, expect(parser.tokens, p, "IDENTIFIER"))
                   /\ check(parser.tokens, p, "PLUS")
                          => MovesOn(parser.tokens, p,
                                     parseFkTarget(parser.tokens, advance(parser.tokens, p)))
                   /\ EndsWithin(parser.tokens, p, parseAttributeList(parser.tokens, p))
                   /\ EndsWithin(parser.tokens, p, parseSubAttributeList(parser.tokens, p))
                   /\ EndsWithin(parser.tokens, p, parseRelationAttributeList(parser.tokens, p))
                   /\ EndsWithin(parser.tokens, p, parseIdentifiedByList(parser.tokens, p))

\* a weak entity was parsed whose attribute list took a composite with
\* sub-attributes and whose Identified By list has two targets; the parser
\* stands at EOF
C28_Witness ==
    /\ phase = "returned"
    /\ pass = 1
    /\ parser.pos = EndOf(parser.tokens)
    /\ \E i \in 1..Len(entities) :
           /\ IsSome(entities[i].identifiedBy)
           /\ Len(Val(entities[i].identifiedBy)) = 2
           /\ \E k \in 1..Len(entities[i].attributes) :
                  /\ IsSome(entities[i].attributes[k].subAttributes)
                  /\ Val(entities[i].attributes[k].subAttributes) # <<>>

----------------------------------------------------------------------------
(* The bundled sample *)

\* the attribute lines the sample writes below each entity and each
\* relationship, in the order of declaration
SampleEntityLines == <<7, 3, 2, 3, 3>>
SampleRelationshipLines == <<0, 0, 2>>

\* C29: parseDSL(sampleDSL) drops no attribute line: entity Order has exactly
\* order_id (primary key), order_date (simple) and total (derived), and every
\* other entity and relationship has one attribute for each of its attribute
\* lines.
C29_SampleAttributesKept ==
    (phase = "trip" /\ input = sampleDSL /\ result # NoResult) =>
        /\ result.kind = "ast"
        /\ Len(Val(result.ast).entities) = Len(SampleEntityLines)
        /\ Len(Val(result.ast).relationships) = Len(SampleRelationshipLines)
        /\ \A i \in 1..Len(SampleEntityLines) :
               CountAttributes(Val(result.ast).entities[i].attributes) = SampleEntityLines[i]
        /\ \A i \in 1..Len(SampleRelationshipLines) :
               CountAttributes(Val(result.ast).relationships[i].attributes)
                   = SampleRelationshipLines[i]
        /\ \E i \in 1..Len(Val(result.ast).entities) :
               /\ Val(result.ast).entities[i].name = wOrder
               /\ Len(Val(result.ast).entities[i].attributes) = 3
               /\ Val(result.ast).entities[i].attributes[1].name = wOrderId
               /\ Val(result.ast).entities[i].attributes[1].keyType = "pk"
               /\ Val(result.ast).entities[i].attributes[2].name = wOrderDate
               /\ Val(result.ast).entities[i].attributes[2].attributeType = "simple"
               /\ Val(result.ast).entities[i].attributes[3].name = sTotal
               /\ Val(result.ast).entities[i].attributes[3].attributeType = "derived"

====
